---- MODULE Spec2Model ----
(***************************************************************************)
(* Stewardship layer: the Shammash executor (core/shammash/src/app.py) and *)
(* the reference StewardshipGate (REFERENCE_IMPL/python).                   *)
(*                                                                         *)
(* Text is modelled as a sequence of pieces.  A piece is either one        *)
(* character ("l", ".", "\n") or a literal of the program that is kept     *)
(* whole ("law.v1.default_deny").  Entity ids, tokens and error messages   *)
(* are spelled character by character, so the regular expressions and the  *)
(* substring replacement of the source act on them as they do in Python.   *)
(***************************************************************************)
EXTENDS Integers, Sequences, FiniteSets, TLC

VARIABLES
    \* policy configuration, module globals of app.py
    HA_TOKEN,
    ALLOWED_ACTION_TYPES,
    SHAMMASH_ALLOWLIST,
    POLICY_MAX_BLAST_RADIUS,
    POLICY_MAX_TIMEOUT,
    POLICY_ENFORCE_TARGET_VERIFY,
    \* one evaluation of the Law engine: its argument and its result
    law_in,
    law_out,
    \* the evaluations of the Law recorded so far, oldest first (history)
    law_calls,
    \* time.time(), the wall clock
    clock,
    \* RateLimiter: limit, window_seconds, _hits (actor -> list of timestamps)
    limit,
    window_seconds,
    _hits,
    \* the accept calls that threads are inside of, each with its position and locals
    accepting,
    \* the accept calls made so far, oldest first (history, not program state)
    rl_calls,
    \* StewardshipGate: the lines of the audit file
    audit_log,
    \* what the gate's callers hold: the proposals and decisions returned so far
    proposals,
    decisions,
    \* the execute calls made so far, oldest first (history, not program state)
    executions,
    \* Shammash: the runs of execute_proposal, each with its position and locals
    runs,
    \* the audit events written to AUDIT_JSONL_PATH, in the order of the
    \* append_audit_event calls that wrote them
    audit_jsonl,
    \* the content of AUDIT_JSONL_PATH, piece by piece
    audit_file,
    \* the requests sent to Home Assistant so far (history, not program state)
    ha_requests,
    \* loop.time(), the clock of the event loop
    loop_time,
    \* one comparison of verify_outcome: expected_val, actual and passed
    cmp_expected,
    cmp_actual,
    cmp_passed,
    \* one call of _sanitize_error: str(exc), and the string returned once it has
    san_exc,
    san_msg

policyVars == <<HA_TOKEN, ALLOWED_ACTION_TYPES, SHAMMASH_ALLOWLIST,
                POLICY_MAX_BLAST_RADIUS, POLICY_MAX_TIMEOUT,
                POLICY_ENFORCE_TARGET_VERIFY>>
lawVars == <<law_in, law_out, law_calls>>
rlVars == <<limit, window_seconds, _hits, accepting>>
gateVars == <<audit_log, proposals, decisions, executions>>
cmpVars == <<cmp_expected, cmp_actual, cmp_passed>>
sanVars == <<san_exc, san_msg>>
appVars == <<runs, audit_jsonl, audit_file, ha_requests, loop_time, cmpVars, sanVars>>
vars == <<policyVars, lawVars, clock, rlVars, rl_calls, gateVars, appVars>>

\* Python's None where a record is expected, and where text is expected
None == [none |-> TRUE]
NoText == <<"None">>

(***************************************************************************)
(* Text helpers                                                            *)
(***************************************************************************)
Range(s) == {s[i] : i \in 1..Len(s)}

\* t occurs in s at position i (1-based)
OccursAt(s, t, i) ==
    /\ i >= 1
    /\ i + Len(t) - 1 <= Len(s)
    /\ \A k \in 1..Len(t) : s[i + k - 1] = t[k]

\* Python's `t in s` for str
Contains(s, t) == \E i \in 1..(Len(s) + 1) : OccursAt(s, t, i)

(***************************************************************************)
(* Entity ids                                                              *)
(***************************************************************************)
IdChars ==
    {"a", "b", "c", "d", "e", "f", "g", "h", "i", "j", "k", "l", "m",
     "n", "o", "p", "q", "r", "s", "t", "u", "v", "w", "x", "y", "z",
     "0", "1", "2", "3", "4", "5", "6", "7", "8", "9", "_"}

\* [a-z0-9_]+\.[a-z0-9_]+ over the whole of t
IdFullMatch(t) ==
    \E k \in 2..(Len(t) - 1) :
        /\ t[k] = "."
        /\ \A i \in 1..(k - 1) : t[i] \in IdChars
        /\ \A i \in (k + 1)..Len(t) : t[i] \in IdChars

\* _ENTITY_ID_RE.match(s): Python's $ also matches before one trailing newline
_ENTITY_ID_RE(s) ==
    \/ IdFullMatch(s)
    \/ /\ Len(s) > 0
       /\ s[Len(s)] = "\n"
       /\ IdFullMatch(SubSeq(s, 1, Len(s) - 1))

(***************************************************************************)
(* Law engine                                                              *)
(***************************************************************************)
_BLAST_RADIUS_ORDER == <<"single_device", "room", "whole_home", "network_wide">>

\* a plausible slip: an unknown radius ranks lowest instead of highest
_blast_radius_level_open(radius) ==
    IF \E i \in 1..Len(_BLAST_RADIUS_ORDER) : _BLAST_RADIUS_ORDER[i] = radius
    THEN (CHOOSE i \in 1..Len(_BLAST_RADIUS_ORDER) : _BLAST_RADIUS_ORDER[i] = radius) - 1
    ELSE 0

\* list.index(radius), 0-based; len(list) for a string that is not in it
_blast_radius_level(radius) ==
    IF \E i \in 1..Len(_BLAST_RADIUS_ORDER) : _BLAST_RADIUS_ORDER[i] = radius
    THEN (CHOOSE i \in 1..Len(_BLAST_RADIUS_ORDER) : _BLAST_RADIUS_ORDER[i] = radius) - 1
    ELSE Len(_BLAST_RADIUS_ORDER)

ActionTypeOrder == <<"toggle_entity", "turn_off", "turn_on">>

\* str(sorted(ALLOWED_ACTION_TYPES)) as pieces
SortedTypes(S) ==
    LET pick(i) == IF ActionTypeOrder[i] \in S THEN <<ActionTypeOrder[i]>> ELSE <<>>
    IN  pick(1) \o pick(2) \o pick(3)

LawDecision(allowed, policy_basis, reason) ==
    [allowed |-> allowed, policy_basis |-> policy_basis, reason |-> reason]

\* the deny results all have the shape ["law.v1.default_deny", <rule id>]
LawDeny(rule, reason) ==
    LawDecision(FALSE, << <<"law.v1.default_deny">>, <<rule>> >>, reason)

LawAllow(entity_id, action_type) ==
    LawDecision(TRUE,
        << <<"law.v1.allowlist_match">>,
           <<"entity=">> \o entity_id,
           <<"type=", action_type>> >>,
        <<>>)

\* a plausible slip: the allowlist is consulted before the action type
evaluate_law_allowlist_first(proposal) ==
    LET action == proposal.action
        entity_id == action.target.entity_id
        verify_entity_id == action.expected_outcome.verify.entity_id
        action_type == action.type
        action_radius == action.metadata.blast_radius
    IN
    IF ~_ENTITY_ID_RE(entity_id) \/ ~_ENTITY_ID_RE(verify_entity_id) THEN
        LawDeny("law.v1.invalid_entity_format", <<>>)
    ELSE IF POLICY_ENFORCE_TARGET_VERIFY /\ entity_id # verify_entity_id THEN
        LawDeny("law.v1.target_verify_mismatch", <<>>)
    ELSE IF entity_id \notin SHAMMASH_ALLOWLIST THEN
        LawDeny("law.v1.entity_not_allowlisted", <<>>)
    ELSE IF action_type \notin ALLOWED_ACTION_TYPES THEN
        LawDeny("law.v1.action_not_allowed", <<>>)
    ELSE IF _blast_radius_level(action_radius)
                > _blast_radius_level(POLICY_MAX_BLAST_RADIUS) THEN
        LawDeny("law.v1.blast_radius_exceeded", <<>>)
    ELSE
        LawAllow(entity_id, action_type)

\* a plausible slip: the Law keeps state, and turns away a proposal it has just seen
evaluate_law_replay_guard(proposal) ==
    IF law_in = proposal
    THEN LawDeny("law.v1.replay", <<>>)
    ELSE evaluate_law_allowlist_first(proposal)

evaluate_law(proposal) ==
    LET action == proposal.action
        entity_id == action.target.entity_id
        verify_entity_id == action.expected_outcome.verify.entity_id
        action_type == action.type
        action_radius == action.metadata.blast_radius
    IN
    \* 1) defense-in-depth: entity_id format check
    IF ~_ENTITY_ID_RE(entity_id) THEN
        LawDeny("law.v1.invalid_entity_format",
            <<"Entity ID '">> \o entity_id \o <<"' does not match required format">>)
    ELSE IF ~_ENTITY_ID_RE(verify_entity_id) THEN
        LawDeny("law.v1.invalid_entity_format",
            <<"Verify entity ID '">> \o verify_entity_id
                \o <<"' does not match required format">>)
    \* 2) target == verify entity
    ELSE IF POLICY_ENFORCE_TARGET_VERIFY /\ entity_id # verify_entity_id THEN
        LawDeny("law.v1.target_verify_mismatch",
            <<"target.entity_id (">> \o entity_id \o <<") != verify.entity_id (">>
                \o verify_entity_id \o <<"). In v1 they must match.">>)
    \* 3) action type is allowed by policy
    ELSE IF action_type \notin ALLOWED_ACTION_TYPES THEN
        LawDeny("law.v1.action_not_allowed",
            <<"Action type '", action_type, "' is not in allowed set: ">>
                \o SortedTypes(ALLOWED_ACTION_TYPES))
    \* 4) entity is in allowlist
    ELSE IF entity_id \notin SHAMMASH_ALLOWLIST THEN
        LawDeny("law.v1.entity_not_allowlisted",
            <<"Entity '">> \o entity_id \o <<"' is not in SHAMMASH_ALLOWLIST">>)
    \* 5) blast radius within policy limits (semantic ordering)
    ELSE IF _blast_radius_level(action_radius)
                > _blast_radius_level(POLICY_MAX_BLAST_RADIUS) THEN
        LawDeny("law.v1.blast_radius_exceeded",
            <<"Blast radius '", action_radius, "' exceeds policy max '",
              POLICY_MAX_BLAST_RADIUS, "'">>)
    \* all deny checks passed
    ELSE
        LawAllow(entity_id, action_type)

(***************************************************************************)
(* RateLimiter (policies.py)                                               *)
(***************************************************************************)
Actors == {"agent", "other"}

PolicyDecision(allowed, reason) == [allowed |-> allowed, reason |-> reason]

\* [ts for ts in hits if ts >= window_start]
PurgeHits(hits, window_start) == SelectSeq(hits, LAMBDA ts : ts >= window_start)

\* `now or time.time()`: a falsy now (0, 0.0, None) is replaced by the wall clock
NowOrTime(now) == IF now = 0 THEN clock ELSE now

\* a plausible slip: the refusal test is off by one (> instead of >=)
AtLimit_off_by_one(hits) == Len(hits) > limit

\* len(hits) >= self.limit
AtLimit(hits) == Len(hits) >= limit

\* RateLimiter.accept on one actor's list: the decision and the list afterwards
RateLimiter_accept(hits, now) ==
    LET t == NowOrTime(now)
        window_start == t - window_seconds
        kept == PurgeHits(hits, window_start)
    IN  IF AtLimit(kept)
        THEN [decision |-> PolicyDecision(FALSE, "rate limit exceeded"), hits |-> kept]
        ELSE [decision |-> PolicyDecision(TRUE, "within rate limit"),
              hits |-> Append(kept, t)]

(***************************************************************************)
(* Proposals (ExecutionProposal of app.py, the fields the pipeline reads)  *)
(***************************************************************************)
HAAction(type, entity_id, verify_entity_id, equals, blast_radius, timeout_seconds) ==
    [type |-> type,
     target |-> [entity_id |-> entity_id],
     metadata |-> [blast_radius |-> blast_radius],
     expected_outcome |->
        [verify |-> [entity_id |-> verify_entity_id,
                     attribute |-> "state",
                     equals |-> equals],
         timeout_seconds |-> timeout_seconds]]

ExecutionProposal(proposal_id, action, justification, confirmation_token, steward_key_token) ==
    [proposal_id |-> proposal_id,
     request_id |-> proposal_id,
     action |-> action,
     justification |-> justification,
     confirmation_token |-> confirmation_token,
     steward_key_token |-> steward_key_token,
     \* expected_outcome: Optional[dict[str, Any]] = None
     expected_outcome |-> [none |-> TRUE]]

IdLamp == <<"l", ".", "a">>
IdSwitch == <<"s", ".", "b">>
IdUpper == <<"L", ".", "a">>
IdNewline == <<"l", ".", "a", "\n">>

ActionTypes == {"toggle_entity", "turn_on", "turn_off"}
DefinedRadii == {"single_device", "room", "whole_home", "network_wide"}
UnknownRadius == "galaxy"

(***************************************************************************)
(* SpecLaw: evaluate_law applied to every proposal of LawProposals under   *)
(* every policy of the initial states.  The Law engine is also reachable   *)
(* with objects that skipped request validation (its first rule exists for *)
(* them), so ill-formed ids and an unknown radius are among the inputs.    *)
(***************************************************************************)
LawIds == {IdLamp, IdSwitch, IdUpper, IdNewline}

\* proposals that leave out their own expected_outcome, and for each action
\* type one that carries it
LawProposals ==
    {ExecutionProposal(1, HAAction(t, e, v, <<"o", "n">>, b, 1), <<"j">>, NoText, NoText) :
        e \in LawIds, v \in LawIds, t \in ActionTypes,
        b \in DefinedRadii \cup {UnknownRadius}}
    \cup
    {[ExecutionProposal(1, HAAction(t, IdLamp, IdLamp, <<"o", "n">>, "room", 1),
                         <<"j">>, NoText, NoText)
         EXCEPT !.expected_outcome = [state |-> <<"o", "n">>]] : t \in ActionTypes}

PolicyChoices ==
    /\ ALLOWED_ACTION_TYPES \in {{}, {"turn_on"}, ActionTypes}
    /\ SHAMMASH_ALLOWLIST \in {{}, {IdLamp}, {IdLamp, IdSwitch}}
    /\ POLICY_MAX_BLAST_RADIUS \in DefinedRadii \cup {UnknownRadius}
    /\ POLICY_ENFORCE_TARGET_VERIFY \in BOOLEAN

LawIdle ==
    /\ law_in = None
    /\ law_out = None
    /\ law_calls = <<>>

\* the parts of the state a specification does not use stay as they are here
RLIdle ==
    /\ limit = 0
    /\ window_seconds = 0
    /\ _hits = [a \in Actors |-> <<>>]
    /\ accepting = <<>>
    /\ rl_calls = <<>>

GateIdle ==
    /\ audit_log = <<>>
    /\ proposals = <<>>
    /\ decisions = <<>>
    /\ executions = <<>>

PipelineIdle ==
    /\ runs = <<>>
    /\ audit_jsonl = <<>>
    /\ audit_file = <<>>
    /\ ha_requests = <<>>
    /\ loop_time = 0
    /\ cmp_expected = None
    /\ cmp_actual = None
    /\ cmp_passed = FALSE

AppIdle ==
    /\ PipelineIdle
    /\ san_exc = <<>>
    /\ san_msg = None

InitLaw ==
    /\ PolicyChoices
    /\ HA_TOKEN = <<"t", "k">>
    /\ POLICY_MAX_TIMEOUT = 1
    /\ LawIdle
    /\ clock = 1
    /\ RLIdle
    /\ GateIdle
    /\ AppIdle

EvaluateLaw(p) ==
    /\ law_in' = p
    /\ law_out' = evaluate_law(p)
    /\ UNCHANGED <<policyVars, appVars, clock, rlVars, rl_calls, gateVars, law_calls>>

NextLaw == \E p \in LawProposals : EvaluateLaw(p)

SpecLaw == InitLaw /\ [][NextLaw]_vars

(***************************************************************************)
(* The deny conditions as the Law table states them, in its order          *)
(***************************************************************************)
BlastRank(r) ==
    CASE r = "single_device" -> 0
      [] r = "room" -> 1
      [] r = "whole_home" -> 2
      [] r = "network_wide" -> 3
      [] OTHER -> 4

LawRuleIds ==
    <<"law.v1.invalid_entity_format", "law.v1.target_verify_mismatch",
      "law.v1.action_not_allowed", "law.v1.entity_not_allowlisted",
      "law.v1.blast_radius_exceeded">>

\* condition i of the table holds of proposal p under the current policy;
\* "matches the entity regex" is the regex of the source, in Python's dialect
LawViolates(p, i) ==
    LET e == p.action.target.entity_id
        v == p.action.expected_outcome.verify.entity_id
    IN  CASE i = 1 -> ~_ENTITY_ID_RE(e) \/ ~_ENTITY_ID_RE(v)
          [] i = 2 -> POLICY_ENFORCE_TARGET_VERIFY /\ e # v
          [] i = 3 -> p.action.type \notin ALLOWED_ACTION_TYPES
          [] i = 4 -> e \notin SHAMMASH_ALLOWLIST
          [] i = 5 -> BlastRank(p.action.metadata.blast_radius)
                        > BlastRank(POLICY_MAX_BLAST_RADIUS)

LawViolated(p) == {i \in 1..5 : LawViolates(p, i)}

FirstViolated(p) == CHOOSE i \in LawViolated(p) : \A j \in LawViolated(p) : i <= j

\* C8: a proposal violating one or more deny conditions is denied with
\* policy_basis exactly ["law.v1.default_deny", r], r the rule id of the
\* first violated condition in the fixed order; later violations change nothing.
C8_FirstViolatedRuleDecides ==
    (law_out # None /\ LawViolated(law_in) # {}) =>
        /\ law_out.allowed = FALSE
        /\ law_out.policy_basis =
              << <<"law.v1.default_deny">>, <<LawRuleIds[FirstViolated(law_in)]>> >>

\* rules 3 and 4 are both violated (and 1, 2 are not): rule 3 is reported
C8_Witness ==
    /\ law_out # None
    /\ LawViolated(law_in) \cap {1, 2, 3, 4} = {3, 4}
    /\ law_out.policy_basis[2] = <<"law.v1.action_not_allowed">>

\* C9: allowed = true iff no deny condition holds, and then policy_basis is
\* exactly ["law.v1.allowlist_match", "entity=<target id>", "type=<action type>"];
\* an empty allowlist denies every proposal.
C9_AllowedIffNoDeny ==
    law_out # None =>
        /\ law_out.allowed <=> (LawViolated(law_in) = {})
        /\ law_out.allowed =>
              law_out.policy_basis =
                 << <<"law.v1.allowlist_match">>,
                    <<"entity=">> \o law_in.action.target.entity_id,
                    <<"type=", law_in.action.type>> >>
        /\ SHAMMASH_ALLOWLIST = {} => ~law_out.allowed

C9_Witness ==
    /\ law_out # None
    /\ law_out.allowed
    /\ law_in.action.target.entity_id = IdSwitch
    /\ law_in.action.type = "turn_off"

\* policy key require_expected_outcome_for: the action types that must carry
\* an explicit expected_outcome; evaluate_law reads no such key
require_expected_outcome_for == {"toggle_entity"}

\* C32 as claimed: a proposal whose action type is in
\* require_expected_outcome_for and whose expected_outcome is absent, and which
\* rules 1 to 5 do not deny, is denied with law.v1.missing_expected_outcome.
C32_MissingExpectedOutcomeDenied ==
    (/\ law_out # None
     /\ law_in.action.type \in require_expected_outcome_for
     /\ law_in.expected_outcome = None
     /\ LawViolated(law_in) = {}) =>
        /\ ~law_out.allowed
        /\ law_out.policy_basis =
              << <<"law.v1.default_deny">>, <<"law.v1.missing_expected_outcome">> >>

\* the verdict of the Law is the same with and without the proposal's own
\* expected_outcome: the five rules alone decide
ExpectedOutcomeNotConsulted ==
    law_out # None =>
        law_out = evaluate_law([law_in EXCEPT !.expected_outcome = None])

\* the widest defined level a policy permits: its ceiling, and for a ceiling
\* that is no defined level at most the widest level there is
WidestDefined == BlastRank("network_wide")
PermittedCeiling(max) == IF max \in DefinedRadii THEN BlastRank(max) ELSE WidestDefined

\* C10 as claimed: an unknown radius ranks above every defined level, and no
\* proposal is allowed whose radius is wider than the widest defined level the
\* policy permits, also when the policy's max_blast_radius is itself unknown.
C10_FailClosed ==
    law_out # None =>
        /\ \A d \in DefinedRadii :
              _blast_radius_level(UnknownRadius) > _blast_radius_level(d)
        /\ law_out.allowed =>
              BlastRank(law_in.action.metadata.blast_radius)
                 <= PermittedCeiling(POLICY_MAX_BLAST_RADIUS)

(***************************************************************************)
(* SpecRL: one RateLimiter called directly, by any actor with any `now`,   *)
(* while the wall clock advances.                                          *)
(***************************************************************************)
MaxLimit == 1
MaxWindow == 1
MaxNow == 2
MaxClock == 2
MaxCalls == 3

PolicyDefault ==
    /\ HA_TOKEN = <<"t", "k">>
    /\ ALLOWED_ACTION_TYPES = ActionTypes
    /\ SHAMMASH_ALLOWLIST = {IdLamp, IdSwitch}
    /\ POLICY_MAX_BLAST_RADIUS = "room"
    /\ POLICY_MAX_TIMEOUT = 1
    /\ POLICY_ENFORCE_TARGET_VERIFY = TRUE

InitRL ==
    /\ PolicyDefault
    /\ LawIdle
    /\ clock = 1
    /\ limit \in 0..MaxLimit
    /\ window_seconds \in 0..MaxWindow
    /\ _hits = [a \in Actors |-> <<>>]
    /\ accepting = <<>>
    /\ rl_calls = <<>>
    /\ GateIdle
    /\ AppIdle

\* time passes
Tick ==
    /\ clock < MaxClock
    /\ clock' = clock + 1
    /\ UNCHANGED <<policyVars, appVars, lawVars, rlVars, rl_calls, gateVars>>

\* rate_limiter.accept(actor, now=now); _hits.setdefault(actor, [])
Accept(actor, now) ==
    /\ Len(rl_calls) < MaxCalls
    /\ LET r == RateLimiter_accept(_hits[actor], now)
       IN  /\ _hits' = [_hits EXCEPT ![actor] = r.hits]
           /\ rl_calls' = Append(rl_calls,
                 [actor |-> actor, now |-> now, decision |-> r.decision,
                  before |-> _hits[actor], after |-> r.hits])
    /\ UNCHANGED <<policyVars, appVars, lawVars, clock, limit, window_seconds, accepting, gateVars>>

NextRL ==
    \/ Tick
    \/ \E actor \in Actors, now \in 0..MaxNow : Accept(actor, now)

SpecRL == InitRL /\ [][NextRL]_vars

\* the calls were made with non-decreasing `now`
NonDecreasingNow ==
    \A i, j \in 1..Len(rl_calls) : i <= j => rl_calls[i].now <= rl_calls[j].now

\* the admitted calls of actor a whose `now` lies in [t, t + window_seconds]
AdmittedIn(a, t) ==
    {i \in 1..Len(rl_calls) :
        /\ rl_calls[i].actor = a
        /\ rl_calls[i].decision.allowed
        /\ t <= rl_calls[i].now
        /\ rl_calls[i].now <= t + window_seconds}

\* the hits of a list that lie inside the window that ends at now
InWindow(hits, now) == PurgeHits(hits, now - window_seconds)

\* C4 as claimed: over calls with non-decreasing `now`, at most `limit` calls
\* of an actor are admitted with timestamps inside any span of window_seconds,
\* and a call made with `limit` hits already inside the window is refused with
\* "rate limit exceeded" and adds no timestamp.
C4_AtMostLimitPerWindow ==
    NonDecreasingNow =>
        /\ \A a \in Actors, t \in 0..MaxNow : Cardinality(AdmittedIn(a, t)) <= limit
        /\ \A i \in 1..Len(rl_calls) :
              Len(InWindow(rl_calls[i].before, rl_calls[i].now)) >= limit =>
                 /\ rl_calls[i].decision = PolicyDecision(FALSE, "rate limit exceeded")
                 /\ Len(rl_calls[i].after) <= Len(rl_calls[i].before)

(***************************************************************************)
(* Claims about the `now` that RateLimiter.accept is given                 *)
(***************************************************************************)
\* the call used the `now` it was given: the history was purged below
\* now - window_seconds, and an admitted call recorded exactly now
UsedSuppliedNow(call) ==
    LET kept == PurgeHits(call.before, call.now - window_seconds)
    IN  /\ call.decision.allowed <=> Len(kept) < limit
        /\ call.after = IF call.decision.allowed THEN Append(kept, call.now) ELSE kept

\* C40 as claimed: accept uses the supplied `now` for every supplied value,
\* 0 included: it purges below now - window_seconds and records exactly now,
\* whatever the wall clock reads.
C40_SuppliedNowIsUsed ==
    \A i \in 1..Len(rl_calls) : UsedSuppliedNow(rl_calls[i])

\* the same for the calls whose supplied `now` is not zero
SuppliedNonZeroNowIsUsed ==
    \A i \in 1..Len(rl_calls) : rl_calls[i].now # 0 => UsedSuppliedNow(rl_calls[i])

(***************************************************************************)
(* Policies of the reference gate (policies.py)                            *)
(***************************************************************************)
\* Allowlist, safe domains: the gate of tests/test_gate.py setUp
allowlist == [actions |-> {"turn_on", "toggle_entity"}, resources |-> {"safe_light"}]
safe_domains == {"lighting"}

\* None where rollback_plan: str | None is expected
NoPlan == "<None>"

allowlist_policy(action, resource, al) ==
    IF action \in al.actions /\ resource \in al.resources
    THEN PolicyDecision(TRUE, "allowlisted")
    ELSE PolicyDecision(FALSE, "not allowlisted")

safe_domain_policy(domain, safe) ==
    IF domain \in safe
    THEN PolicyDecision(TRUE, "safe domain")
    ELSE PolicyDecision(FALSE, "domain requires confirmation")

reversibility_required(has_rollback) ==
    IF has_rollback
    THEN PolicyDecision(TRUE, "rollback available")
    ELSE PolicyDecision(FALSE, "missing rollback plan")

\* the three sub-results computed by explain and again by decide
policy_results(proposal) ==
    [allowlist |-> allowlist_policy(proposal.action, proposal.resource, allowlist),
     safe_domain |-> safe_domain_policy(proposal.domain, safe_domains),
     reversible |-> reversibility_required(proposal.rollback_plan # NoPlan)]

\* "; ".join(f"{name}: {pd.reason}" ...)
explain_policy_results(results) ==
    <<"allowlist: ", results.allowlist.reason, "; safe_domain: ",
      results.safe_domain.reason, "; reversible: ", results.reversible.reason>>

(***************************************************************************)
(* StewardshipGate (stewardship_gate.py) and AuditLog (audit_log.py)       *)
(***************************************************************************)
Proposal(proposal_id, actor, action, resource, domain, rollback_plan) ==
    [proposal_id |-> proposal_id, actor |-> actor, action |-> action,
     resource |-> resource, domain |-> domain, rationale |-> "",
     rollback_plan |-> rollback_plan, trace_id |-> proposal_id]

Decision(proposal_id, approved, reason, approver, timestamp) ==
    [proposal_id |-> proposal_id, approved |-> approved, reason |-> reason,
     approver |-> approver, timestamp |-> timestamp]

ExecutionResult(proposal_id, status, details, started_at, ended_at) ==
    [proposal_id |-> proposal_id, status |-> status, details |-> details,
     started_at |-> started_at, ended_at |-> ended_at]

AuditEntry(proposal_id, trace_id, stage, payload, timestamp) ==
    [proposal_id |-> proposal_id, trace_id |-> trace_id, stage |-> stage,
     payload |-> payload, timestamp |-> timestamp]

\* AuditLog.append opened for writing instead of appending: the file is rewritten
append_truncating(log, entry) == <<entry>>

\* AuditLog.append: one more line at the end of the file
append(log, entry) == Append(log, entry)

\* the summary string of explain
Summary(proposal) ==
    <<"Action: ", proposal.action, " on ", proposal.resource, " in ",
      proposal.domain, ". Rationale: ", proposal.rationale, ". Rollback: ",
      IF proposal.rollback_plan \in {NoPlan, ""} THEN "none" ELSE proposal.rollback_plan,
      ". Policies -> ">> \o explain_policy_results(policy_results(proposal))

\* the audit entry explain appends
ExplainEntry(proposal) ==
    AuditEntry(proposal.proposal_id, proposal.trace_id, "explain",
               [summary |-> Summary(proposal)], clock)

\* all(pd.allowed for pd in policy_results.values())
AutoApprove(proposal) ==
    LET r == policy_results(proposal)
    IN  r.allowlist.allowed /\ r.safe_domain.allowed /\ r.reversible.allowed

\* a plausible slip: the approval test is dropped
DecisionApproved_ignored(decision) == TRUE

\* `if not decision.approved` tests this
DecisionApproved(decision) == decision.approved

MaxProposals == 2
MaxDecisions == 2
MaxExecutes == 2
MaxAudit == 6

\* propose: a fresh proposal_id / trace_id and one audit entry
GatePropose(actor, action, resource, domain, rollback_plan) ==
    /\ Len(proposals) < MaxProposals
    /\ Len(audit_log) < MaxAudit
    /\ LET proposal == Proposal(Len(proposals) + 1, actor, action, resource,
                                domain, rollback_plan)
       IN  /\ proposals' = Append(proposals, proposal)
           /\ audit_log' = append(audit_log,
                 AuditEntry(proposal.proposal_id, proposal.trace_id, "propose",
                            proposal, clock))
    /\ UNCHANGED <<policyVars, appVars, lawVars, clock, rlVars, rl_calls, decisions, executions>>

\* explain called on its own
GateExplain(proposal) ==
    /\ Len(audit_log) < MaxAudit
    /\ audit_log' = append(audit_log, ExplainEntry(proposal))
    /\ UNCHANGED <<policyVars, appVars, lawVars, clock, rlVars, rl_calls, proposals,
                   decisions, executions>>

\* decide: explain, then auto-approve or ask decision_fn (answer: its return value)
GateDecide(proposal, approver, answer) ==
    /\ Len(decisions) < MaxDecisions
    /\ Len(audit_log) + 1 < MaxAudit
    /\ LET auto_approve == AutoApprove(proposal)
           approved == auto_approve \/ answer
           reason == IF auto_approve THEN "auto-approved"
                     ELSE IF approved THEN "human approved" ELSE "human denied"
           decision == Decision(proposal.proposal_id, approved, reason, approver, clock)
       IN  /\ decisions' = Append(decisions,
                 [decision |-> decision, proposal |-> proposal,
                  decision_fn_calls |-> IF auto_approve THEN 0 ELSE 1,
                  decision_fn_returns |-> IF auto_approve THEN <<>> ELSE <<answer>>])
           /\ audit_log' = append(append(audit_log, ExplainEntry(proposal)),
                   AuditEntry(proposal.proposal_id, proposal.trace_id, "decision",
                              decision, decision.timestamp))
    /\ UNCHANGED <<policyVars, appVars, lawVars, clock, rlVars, rl_calls, proposals, executions>>

\* execute, with an executor that returns "ok" or raises
GateExecute(proposal, decision, executor) ==
    /\ Len(executions) < MaxExecutes
    /\ Len(audit_log) < MaxAudit
    /\ LET start == clock
           call(rate, called, result) ==
               [proposal |-> proposal, decision |-> decision, start |-> start,
                rate |-> rate, executor_called |-> called, result |-> result,
                hits_before |-> _hits]
           entry(result) ==
               AuditEntry(proposal.proposal_id, proposal.trace_id, "execute",
                          result, clock)
           skipped(reason) ==
               ExecutionResult(proposal.proposal_id, "SKIPPED", reason, start, clock)
           success == ExecutionResult(proposal.proposal_id, "SUCCESS", "ok", start, clock)
           rate_result == RateLimiter_accept(_hits[proposal.actor], start)
       IN
       IF ~DecisionApproved(decision) THEN
           /\ audit_log' = append(audit_log, entry(skipped(decision.reason)))
           /\ executions' = Append(executions, call(None, FALSE, skipped(decision.reason)))
           /\ _hits' = _hits
       ELSE IF ~rate_result.decision.allowed THEN
           /\ _hits' = [_hits EXCEPT ![proposal.actor] = rate_result.hits]
           /\ audit_log' = append(audit_log, entry(skipped(rate_result.decision.reason)))
           /\ executions' = Append(executions,
                 call(rate_result.decision, FALSE, skipped(rate_result.decision.reason)))
       ELSE IF executor = "raise" THEN
           \* the executor's exception leaves execute: no result, no audit entry
           /\ _hits' = [_hits EXCEPT ![proposal.actor] = rate_result.hits]
           /\ audit_log' = audit_log
           /\ executions' = Append(executions, call(rate_result.decision, TRUE, None))
       ELSE
           /\ _hits' = [_hits EXCEPT ![proposal.actor] = rate_result.hits]
           /\ audit_log' = append(audit_log, entry(success))
           /\ executions' = Append(executions, call(rate_result.decision, TRUE, success))
    /\ UNCHANGED <<policyVars, appVars, lawVars, clock, limit, window_seconds, accepting, rl_calls,
                   proposals, decisions>>

\* learn: one more audit entry
GateLearn(proposal, execution, feedback) ==
    /\ Len(audit_log) < MaxAudit
    /\ audit_log' = append(audit_log,
          AuditEntry(proposal.proposal_id, proposal.trace_id, "learn",
                     [execution_status |-> execution.status,
                      details |-> execution.details,
                      feedback |-> IF feedback = NoPlan THEN "" ELSE feedback],
                     clock))
    /\ UNCHANGED <<policyVars, appVars, lawVars, clock, rlVars, rl_calls, proposals,
                   decisions, executions>>

(***************************************************************************)
(* SpecGate: one gate, used by callers that hold the proposals, decisions  *)
(* and results it returned and may pass any of them to any operation.      *)
(***************************************************************************)
\* the arguments of propose: (actor, action, resource, domain, rollback_plan)
ProposeInputs ==
    {<<"agent", "turn_on", "safe_light", "lighting", "turn_off">>,
     <<"agent", "toggle_entity", "safe_light", "lighting", "turn_off">>,
     <<"agent", "turn_on", "unsafe_switch", "lighting", "turn_off">>,
     <<"agent", "turn_on", "safe_light", "security", "turn_off">>,
     <<"agent", "turn_on", "safe_light", "lighting", NoPlan>>,
     <<"agent", "turn_on", "safe_light", "lighting", "">>,
     <<"other", "turn_on", "safe_light", "lighting", "turn_off">>}

InitGate ==
    /\ PolicyDefault
    /\ LawIdle
    /\ clock = 1
    /\ limit \in 0..MaxLimit
    /\ window_seconds \in 0..MaxWindow
    /\ _hits = [a \in Actors |-> <<>>]
    /\ accepting = <<>>
    /\ rl_calls = <<>>
    /\ GateIdle
    /\ AppIdle

NextGate ==
    \/ Tick
    \/ \E in \in ProposeInputs : GatePropose(in[1], in[2], in[3], in[4], in[5])
    \/ \E i \in 1..Len(proposals) : GateExplain(proposals[i])
    \/ \E i \in 1..Len(proposals), answer \in BOOLEAN :
          GateDecide(proposals[i], "tester", answer)
    \/ \E i \in 1..Len(proposals), j \in 1..Len(decisions),
          executor \in {"ok", "raise"} :
          GateExecute(proposals[i], decisions[j].decision, executor)
    \/ \E i \in 1..Len(proposals), k \in 1..Len(executions),
          feedback \in {NoPlan, "fb"} :
          /\ executions[k].result # None
          /\ GateLearn(proposals[i], executions[k].result, feedback)

SpecGate == InitGate /\ [][NextGate]_vars

\* the TTL the gate is constructed with in test_decision_ttl_expiry
decision_ttl_seconds == 0

\* the decision of execute call e had outlived the TTL when the call began
Expired(e) == e.start - e.decision.timestamp > decision_ttl_seconds

\* C5 as claimed: an execute call made when now - decision.timestamp exceeds
\* the decision TTL returns EXPIRED, with details citing the TTL, and does not
\* call the executor.
C5_ExpiredDecisionNeverRuns ==
    \A i \in 1..Len(executions) :
        Expired(executions[i]) =>
            /\ executions[i].result # None
            /\ executions[i].result.status = "EXPIRED"
            /\ ~executions[i].executor_called

\* C6: an execute call whose decision is not approved returns SKIPPED with the
\* decision's reason as details and never calls the executor; the executor is
\* called only under an approved decision and after the rate limiter admitted
\* the actor.
C6_UnapprovedIsSkipped ==
    \A i \in 1..Len(executions) :
        LET e == executions[i]
        IN  /\ ~e.decision.approved =>
                 /\ e.result # None
                 /\ e.result.status = "SKIPPED"
                 /\ e.result.details = e.decision.reason
                 /\ ~e.executor_called
            /\ e.executor_called =>
                 /\ e.decision.approved
                 /\ e.rate # None
                 /\ e.rate.allowed

\* execute was called with a refused decision and returned SKIPPED
C6_Witness ==
    \E i \in 1..Len(executions) :
        /\ ~executions[i].decision.approved
        /\ executions[i].result # None
        /\ executions[i].result.status = "SKIPPED"
        /\ executions[i].result.details = executions[i].decision.reason

\* C7 as claimed: execute of a toggle_entity proposal that carries no
\* expected_outcome returns REJECTED and does not call the executor.  (The
\* Proposal of the source has no expected_outcome field: no proposal carries
\* one.)  Stated for approved, unexpired decisions, which no earlier step of
\* execute turns away.
C7_ToggleWithoutOutcomeRejected ==
    \A i \in 1..Len(executions) :
        LET e == executions[i]
        IN  (e.proposal.action = "toggle_entity" /\ e.decision.approved /\ ~Expired(e)) =>
                /\ e.result # None
                /\ e.result.status = "REJECTED"
                /\ ~e.executor_called

(***************************************************************************)
(* Shammash: secret sanitization (app.py)                                  *)
(***************************************************************************)
Whitespace == {" ", "\t", "\n"}
Quotes == {"'", "\""}
\* the characters the value part of the Authorization pattern stops at
ValueStops == {"'", "\"", "}", "]"}

\* "[REDACTED]"
REDACTED == <<"[", "REDACTED", "]">>

\* how many consecutive pieces of s, from position i on, lie in S
RECURSIVE RunIn(_, _, _)
RunIn(s, i, S) ==
    IF i >= 1 /\ i <= Len(s) /\ s[i] \in S THEN 1 + RunIn(s, i + 1, S) ELSE 0

\* how many consecutive pieces of s, from position i on, lie outside S
RECURSIVE RunNotIn(_, _, _)
RunNotIn(s, i, S) ==
    IF i >= 1 /\ i <= Len(s) /\ s[i] \notin S THEN 1 + RunNotIn(s, i + 1, S) ELSE 0

\* str.replace(old, new) for a non-empty old: leftmost occurrences, not overlapping
RECURSIVE str_replace(_, _, _)
str_replace(s, old, new) ==
    IF s = <<>> THEN <<>>
    ELSE IF OccursAt(s, old, 1)
         THEN new \o str_replace(SubSeq(s, Len(old) + 1, Len(s)), old, new)
         ELSE <<Head(s)>> \o str_replace(Tail(s), old, new)

\* r"Bearer\s+\S+" matched at position i: the last position of the match, 0 if none
BearerMatchEnd(s, i) ==
    LET w == RunIn(s, i + 1, Whitespace)
        n == RunNotIn(s, i + 1 + w, Whitespace)
    IN  IF i <= Len(s) /\ s[i] = "Bearer" /\ w >= 1 /\ n >= 1 THEN i + w + n ELSE 0

\* re.sub(r"Bearer\s+\S+", "Bearer [REDACTED]", s), from position i on
RECURSIVE sub_bearer(_, _)
sub_bearer(s, i) ==
    IF i > Len(s) THEN <<>>
    ELSE IF BearerMatchEnd(s, i) > 0
         THEN <<"Bearer", " ">> \o REDACTED \o sub_bearer(s, BearerMatchEnd(s, i) + 1)
         ELSE <<s[i]>> \o sub_bearer(s, i + 1)

\* r"['\"]?Authorization['\"]?\s*:\s*['\"]?[^'\"}\]]+['\"]?" matched at position
\* i: the last position of the match, 0 if none.  The quantifiers are greedy and
\* give back what they took, in Python's order, when the rest does not match.
AuthorizationMatchEnd(s, i) ==
    LET a == IF i <= Len(s) /\ s[i] \in Quotes THEN i + 1 ELSE i
        b == IF a + 1 <= Len(s) /\ s[a + 1] \in Quotes THEN a + 2 ELSE a + 1
        c == b + RunIn(s, b, Whitespace)
        d == c + 1
        j == d + RunIn(s, d, Whitespace)
        quoted == j <= Len(s) /\ s[j] \in Quotes
        Closing(e) == IF e + 1 <= Len(s) /\ s[e + 1] \in Quotes THEN e + 1 ELSE e
    IN  IF ~(a <= Len(s) /\ s[a] = "Authorization" /\ c <= Len(s) /\ s[c] = ":") THEN 0
        ELSE IF quoted /\ RunNotIn(s, j + 1, ValueStops) >= 1
             THEN Closing(j + RunNotIn(s, j + 1, ValueStops))
        ELSE IF RunNotIn(s, j, ValueStops) >= 1
             THEN Closing(j + RunNotIn(s, j, ValueStops) - 1)
        ELSE IF j > d THEN Closing(j - 1)
        ELSE 0

\* re.sub(<the Authorization pattern>, "Authorization: [REDACTED]", s), from i on
RECURSIVE sub_authorization(_, _)
sub_authorization(s, i) ==
    IF i > Len(s) THEN <<>>
    ELSE IF AuthorizationMatchEnd(s, i) > 0
         THEN <<"Authorization", ":", " ">> \o REDACTED
                  \o sub_authorization(s, AuthorizationMatchEnd(s, i) + 1)
         ELSE <<s[i]>> \o sub_authorization(s, i + 1)

\* _sanitize_error(exc), exc given by str(exc)
_sanitize_error(exc) ==
    LET msg == IF HA_TOKEN # <<>> /\ Contains(exc, HA_TOKEN)
               THEN str_replace(exc, HA_TOKEN, REDACTED)
               ELSE exc
        \* the three substitutions in turn, each on the finished result of the last
    IN  CHOOSE out \in {sub_authorization(t, 1) : t \in {sub_bearer(m, 1) : m \in {msg}}} : TRUE

\* _sanitize_proposal_for_audit: model_dump() without the two token keys
_sanitize_proposal_for_audit(proposal) ==
    [k \in DOMAIN proposal \ {"confirmation_token", "steward_key_token"} |-> proposal[k]]

(***************************************************************************)
(* Shammash: audit events, receipts and the Home Assistant client (app.py) *)
(***************************************************************************)
\* AuditEvent, without event_id and timestamp (a fresh uuid and the time)
_make_audit_event(event_type, request_id, proposal_id, payload) ==
    [service |-> "shammash",
     event_type |-> event_type,
     correlation |-> [request_id |-> request_id, proposal_id |-> proposal_id],
     payload |-> payload]

\* one character of the audit file
Chr(c) == [chr |-> c]

\* the members of a JSON object as json writes them: every line feed inside
\* a string is escaped, so the text holds no line feed of its own
Members(event) == [members |-> event]

LineFeed == Chr("\n")

\* event.model_dump_json(): the event as one JSON object
model_dump_json(event) == <<Chr("{"), Members(event), Chr("}")>>

\* a plausible slip: the line is written without its line feed
append_audit_event_unterminated(file, event) == file \o model_dump_json(event)

\* append_audit_event: open the file for appending, one write of the whole
\* line, flush; it has no await, so no other coroutine runs inside it
append_audit_event(file, event) == file \o (model_dump_json(event) \o <<LineFeed>>)

\* the append_audit_event calls of one step, in order
RECURSIVE append_audit_events(_, _)
append_audit_events(file, events) ==
    IF events = <<>> THEN file
    ELSE append_audit_events(append_audit_event(file, Head(events)), Tail(events))

Verification(pass, evidence) == [pass |-> pass, evidence |-> evidence]

\* ExecutionReceipt, without schema_version, timestamp and source
ExecutionReceipt(proposal_id, decision, policy_basis, action_taken, verification, before_state, after_state, failure_language_hint) ==
    [proposal_id |-> proposal_id,
     decision |-> decision,
     policy_basis |-> policy_basis,
     action_taken |-> action_taken,
     verification |-> verification,
     before_state |-> before_state,
     after_state |-> after_state,
     audit_ref |-> <<"audit:", ToString(proposal_id)>>,
     failure_language_hint |-> failure_language_hint]

_HA_SERVICE_MAP ==
    [toggle_entity |-> "homeassistant/toggle",
     turn_on |-> "homeassistant/turn_on",
     turn_off |-> "homeassistant/turn_off"]

\* the request ha_get_state sends, on behalf of run r
ha_get_state(r, entity_id) ==
    [run |-> r, call |-> "ha_get_state", entity_id |-> entity_id,
     endpoint |-> <<"/api/states/">> \o entity_id]

\* the request ha_call_service sends, on behalf of run r
ha_call_service(r, action) ==
    [run |-> r, call |-> "ha_call_service", entity_id |-> action.target.entity_id,
     endpoint |-> <<"/api/services/", _HA_SERVICE_MAP[action.type]>>]

\* what ha_call_service returns when the POST succeeds
ServiceResult(action, status_code) ==
    [endpoint |-> <<"/api/services/", _HA_SERVICE_MAP[action.type]>>,
     domain_service |-> <<_HA_SERVICE_MAP[action.type]>>,
     payload |-> [entity_id |-> action.target.entity_id],
     status_code |-> status_code]

\* an await that returned a value, and one that raised with str(exc) = message
Returned(value) == [ok |-> TRUE, value |-> value]
Raised(message) == [ok |-> FALSE, exc |-> message]

\* the dict of an entity's state as Home Assistant reports it
StateOn == <<"o", "n">>
StateOff == <<"o", "f", "f">>
HAState(entity_id, state) == [entity_id |-> entity_id, state |-> state]

\* {} as the initial last_state of verify_outcome
EmptyDict == [empty |-> TRUE]

\* repr() of a str without quotes or backslashes in it
Repr(text) == <<"'">> \o text \o <<"'">>

\* f"{elapsed}s ({poll_count} poll{'s' if poll_count != 1 else ''})"
PollsText(elapsed, poll_count) ==
    <<ToString(elapsed), ".0", "s (", ToString(poll_count), " poll">>
        \o (IF poll_count # 1 THEN <<"s">> ELSE <<>>) \o <<")">>

(***************************************************************************)
(* The values verify_outcome compares: JSON scalars, each with its Python  *)
(* type.  A float is kept in tenths (PyFloat(15) is 1.5), text is spelled    *)
(* character by character.                                                 *)
(***************************************************************************)
PyNone == [type |-> "NoneType"]
PyBool(b) == [type |-> "bool", value |-> b]
PyInt(n) == [type |-> "int", value |-> n]
PyFloat(tenths) == [type |-> "float", value |-> tenths]
PyStr(text) == [type |-> "str", value |-> text]

\* the number num / 10^digits
Number(num, digits) == [num |-> num, digits |-> digits]
\* what float() raises instead of returning
ValueError == [raised |-> "ValueError"]
TypeError == [raised |-> "TypeError"]

RECURSIVE Pow10(_)
Pow10(n) == IF n = 0 THEN 1 ELSE 10 * Pow10(n - 1)

SameNumber(x, y) == x.num * Pow10(y.digits) = y.num * Pow10(x.digits)

DecimalDigits == <<"0", "1", "2", "3", "4", "5", "6", "7", "8", "9">>
DigitValue(c) == CHOOSE d \in 0..9 : DecimalDigits[d + 1] = c

\* the decimal spelling of a natural number
RECURSIVE Decimal(_)
Decimal(n) ==
    IF n < 10 THEN <<DecimalDigits[n + 1]>>
    ELSE Decimal(n \div 10) \o <<DecimalDigits[(n % 10) + 1]>>

\* the natural number a run of digits spells
RECURSIVE DigitsValue(_)
DigitsValue(digits) ==
    IF digits = <<>> THEN 0
    ELSE DigitsValue(SubSeq(digits, 1, Len(digits) - 1)) * 10
            + DigitValue(digits[Len(digits)])

RECURSIVE lstrip(_)
lstrip(text) ==
    IF text # <<>> /\ Head(text) \in Whitespace THEN lstrip(Tail(text)) ELSE text

RECURSIVE rstrip(_)
rstrip(text) ==
    IF text # <<>> /\ text[Len(text)] \in Whitespace
    THEN rstrip(SubSeq(text, 1, Len(text) - 1)) ELSE text

\* float(text) for text without exponent, underscore, "inf" or "nan":
\* blanks around, a sign, digits with at most one point among them
float_str(text) ==
    LET stripped == rstrip(lstrip(text))
        signed == stripped # <<>> /\ Head(stripped) \in {"+", "-"}
        body == IF signed THEN Tail(stripped) ELSE stripped
        points == {k \in 1..Len(body) : body[k] = "."}
        NotPoint(c) == c # "."
        digits == SelectSeq(body, NotPoint)
        magnitude == DigitsValue(digits)
    IN  IF /\ Cardinality(points) <= 1
           /\ digits # <<>>
           /\ Range(digits) \subseteq Range(DecimalDigits)
        THEN Number(IF signed /\ Head(stripped) = "-" THEN 0 - magnitude ELSE magnitude,
                    IF points = {} THEN 0 ELSE Len(body) - (CHOOSE k \in points : TRUE))
        ELSE ValueError

\* float(value)
float(v) ==
    CASE v.type = "bool" -> Number(IF v.value THEN 1 ELSE 0, 0)
      [] v.type = "int" -> Number(v.value, 0)
      [] v.type = "float" -> Number(v.value, 1)
      [] v.type = "str" -> float_str(v.value)
      [] v.type = "NoneType" -> TypeError

\* str(value), for numbers that are not negative
str(v) ==
    CASE v.type = "bool" -> IF v.value THEN <<"T", "r", "u", "e">>
                            ELSE <<"F", "a", "l", "s", "e">>
      [] v.type = "int" -> Decimal(v.value)
      [] v.type = "float" -> Decimal(v.value \div 10) \o <<".">> \o Decimal(v.value % 10)
      [] v.type = "str" -> v.value
      [] v.type = "NoneType" -> <<"N", "o", "n", "e">>

UpperCase == <<"A", "B", "C", "D", "E", "F", "G", "H", "I", "J", "K", "L", "M",
               "N", "O", "P", "Q", "R", "S", "T", "U", "V", "W", "X", "Y", "Z">>
LowerCase == <<"a", "b", "c", "d", "e", "f", "g", "h", "i", "j", "k", "l", "m",
               "n", "o", "p", "q", "r", "s", "t", "u", "v", "w", "x", "y", "z">>

\* str.lower()
lower(text) ==
    [k \in 1..Len(text) |->
        IF text[k] \in Range(UpperCase)
        THEN LowerCase[CHOOSE i \in 1..26 : UpperCase[i] = text[k]]
        ELSE text[k]]

\* isinstance(v, bool), and isinstance(v, (int, float)): bool is a subclass of int
isinstance_bool(v) == v.type = "bool"
isinstance_int_float(v) == v.type \in {"bool", "int", "float"}

\* a == b
py_eq(a, b) ==
    IF isinstance_int_float(a) /\ isinstance_int_float(b) THEN SameNumber(float(a), float(b))
    ELSE IF a.type = "str" /\ b.type = "str" THEN a.value = b.value
    ELSE a.type = "NoneType" /\ b.type = "NoneType"

\* a plausible slip: the numeric test comes first, and a bool is an int
Compare_numeric_first(expected_val, actual) ==
    IF isinstance_int_float(expected_val) THEN
        IF "raised" \in DOMAIN float(actual) THEN FALSE
        ELSE SameNumber(float(actual), float(expected_val))
    ELSE IF isinstance_bool(expected_val) THEN
        py_eq(actual, expected_val) \/ lower(str(actual)) = lower(str(expected_val))
    ELSE str(actual) = str(expected_val)

\* the comparison of verify_outcome: passed, from expected_val and actual
Compare(expected_val, actual) ==
    IF isinstance_bool(expected_val) THEN
        py_eq(actual, expected_val) \/ lower(str(actual)) = lower(str(expected_val))
    ELSE IF isinstance_int_float(expected_val) THEN
        IF "raised" \in DOMAIN float(actual) THEN FALSE
        ELSE SameNumber(float(actual), float(expected_val))
    ELSE str(actual) = str(expected_val)

\* a plausible slip: any state that could be read counts as the expected one
ValuesMatch_any_state(expected_val, actual) == TRUE

\* the comparison of verify_outcome for an expected value and a state that are str
ValuesMatch(expected_val, actual) == Compare(PyStr(expected_val), PyStr(actual))

POLL_INTERVAL_SECONDS == 1

Min(a, b) == IF a <= b THEN a ELSE b

(***************************************************************************)
(* Shammash: execute_proposal.  A run of the coroutine is suspended only   *)
(* at its awaits; each operator below is the code from one await to the    *)
(* next, and yields the run afterwards, the audit events it appended and   *)
(* the requests it sent.                                                   *)
(***************************************************************************)
NewRun(proposal) ==
    [pc |-> "start", proposal |-> proposal, law |-> None, before_state |-> None,
     service_result |-> None, start_time |-> 0, deadline |-> 0, last_state |-> None,
     poll_count |-> 0, polls |-> <<>>, wake_at |-> 0, receipt |-> None,
     before_read |-> None, service_response |-> None]

Outcome(run, events, requests) == [run |-> run, events |-> events, requests |-> requests]

\* append the execution_receipt.out event and return the receipt
ReturnReceipt(run, events, receipt) ==
    Outcome([run EXCEPT !.pc = "done", !.receipt = receipt],
            events \o <<_make_audit_event("execution_receipt.out",
                           run.proposal.request_id, run.proposal.proposal_id, receipt)>>,
            <<>>)

\* a plausible slip: the Law's verdict is not consulted
LawAllowed_ignored(law) == TRUE

\* `if not law.allowed` tests this
LawAllowed(law) == law.allowed

\* a plausible slip: the token is not checked before the pipeline starts
TokenConfigured_any(token) == TRUE

\* `if not HA_TOKEN` tests this
TokenConfigured(token) == token # <<>>

\* steps 0 to 3: from the call to the await of the before-state read
execute_proposal_begin(r, proposal) ==
    LET run == NewRun(proposal)
        law == evaluate_law(proposal)
        proposal_in == _make_audit_event("execution_proposal.in",
                           proposal.request_id, proposal.proposal_id,
                           _sanitize_proposal_for_audit(proposal))
        law_decision == _make_audit_event("law_decision",
                           proposal.request_id, proposal.proposal_id,
                           [allowed |-> law.allowed, policy_basis |-> law.policy_basis,
                            reason |-> law.reason])
    IN  IF ~TokenConfigured(HA_TOKEN) THEN
            ReturnReceipt(run, <<>>,
                ExecutionReceipt(proposal.proposal_id, "failed",
                    << <<"law.v1.misconfigured.no_token">> >>, None,
                    Verification(FALSE,
                        <<"HA_TOKEN is not configured. Cannot reach Home Assistant.">>),
                    None, None,
                    <<"Shammash is misconfigured: HA_TOKEN is empty.">>))
        ELSE IF ~LawAllowed(law) THEN
            ReturnReceipt([run EXCEPT !.law = law], <<proposal_in, law_decision>>,
                ExecutionReceipt(proposal.proposal_id, "denied", law.policy_basis, None,
                    Verification(FALSE, law.reason), None, None, law.reason))
        ELSE
            Outcome([run EXCEPT !.pc = "await_before_state", !.law = law],
                    <<proposal_in, law_decision>>,
                    <<ha_get_state(r, proposal.action.target.entity_id)>>)

\* a plausible slip: a failed before-state read is passed over and the call is made
execute_proposal_before_state_proceeds(r, run, response) ==
    Outcome([run EXCEPT !.pc = "await_call_service", !.before_read = response],
            <<_make_audit_event("execution_attempt",
                  run.proposal.request_id, run.proposal.proposal_id,
                  [action_type |-> run.proposal.action.type,
                   entity_id |-> run.proposal.action.target.entity_id])>>,
            <<ha_call_service(r, run.proposal.action)>>)

\* steps 3 and 4: from the before-state read to the await of the service call
execute_proposal_before_state(r, run, response) ==
    LET proposal == run.proposal
        entity_id == proposal.action.target.entity_id
        read == [run EXCEPT !.before_read = response]
    IN  IF ~response.ok THEN
            ReturnReceipt(read, <<>>,
                ExecutionReceipt(proposal.proposal_id, "failed", run.law.policy_basis, None,
                    Verification(FALSE,
                        <<"Failed to read before-state: ">> \o _sanitize_error(response.exc)),
                    None, None,
                    <<"Could not reach HA to read state for ">> \o entity_id))
        ELSE
            Outcome([read EXCEPT !.pc = "await_call_service",
                                 !.before_state = response.value],
                    <<_make_audit_event("execution_attempt",
                          proposal.request_id, proposal.proposal_id,
                          [action_type |-> proposal.action.type, entity_id |-> entity_id])>>,
                    <<ha_call_service(r, proposal.action)>>)

\* a plausible slip: a service call that succeeded is reported as allowed
execute_proposal_finish_allowed(run, passed, evidence, after_state) ==
    ReturnReceipt(run, <<>>,
        ExecutionReceipt(run.proposal.proposal_id, "allowed", run.law.policy_basis,
            [type |-> run.proposal.action.type,
             entity_id |-> run.proposal.action.target.entity_id,
             endpoint |-> run.service_result.endpoint,
             domain_service |-> run.service_result.domain_service,
             payload |-> run.service_result.payload,
             status_code |-> run.service_result.status_code],
            Verification(passed, evidence), run.before_state, after_state,
            IF passed THEN NoText ELSE evidence))

\* steps 5 and 6: the receipt built from what verify_outcome returned
execute_proposal_finish(run, passed, evidence, after_state) ==
    LET proposal == run.proposal
        service_result == run.service_result
    IN  ReturnReceipt(run, <<>>,
            ExecutionReceipt(proposal.proposal_id,
                IF passed THEN "allowed" ELSE "failed",
                run.law.policy_basis,
                [type |-> proposal.action.type,
                 entity_id |-> proposal.action.target.entity_id,
                 endpoint |-> service_result.endpoint,
                 domain_service |-> service_result.domain_service,
                 payload |-> service_result.payload,
                 status_code |-> service_result.status_code],
                Verification(passed, evidence),
                run.before_state, after_state,
                IF passed THEN NoText ELSE evidence))

\* verify_outcome after its loop: the timeout result
verify_outcome_timeout(run, now) ==
    LET verify == run.proposal.action.expected_outcome.verify
        last_state == run.last_state
        final_actual == IF "state" \in DOMAIN last_state THEN last_state.state
                        ELSE <<"<unknown>">>
    IN  execute_proposal_finish(run, FALSE,
            <<"Timeout: ">> \o verify.entity_id \o <<".", verify.attribute, " expected ">>
                \o Repr(verify.equals) \o <<"; observed ">> \o Repr(final_actual)
                \o <<" after ">> \o PollsText(now - run.start_time, run.poll_count),
            last_state)

\* a plausible slip: the loop does not test the deadline
verify_outcome_loop_forever(r, run, now) ==
    Outcome([run EXCEPT !.pc = "await_poll", !.poll_count = run.poll_count + 1,
                        !.polls = Append(run.polls, [at |-> now, answer |-> None])],
            <<>>,
            <<ha_get_state(r, run.proposal.action.expected_outcome.verify.entity_id)>>)

\* verify_outcome at the head of its loop, the event loop's clock reading now
verify_outcome_loop(r, run, now) ==
    IF now < run.deadline THEN
        Outcome([run EXCEPT !.pc = "await_poll", !.poll_count = run.poll_count + 1,
                            !.polls = Append(run.polls, [at |-> now, answer |-> None])],
                <<>>,
                <<ha_get_state(r, run.proposal.action.expected_outcome.verify.entity_id)>>)
    ELSE
        verify_outcome_timeout(run, now)

\* a plausible slip: the proposal's timeout is used as it came
effective_timeout_unclamped(expected) == expected.timeout_seconds

\* min(expected.timeout_seconds, POLICY_MAX_TIMEOUT)
effective_timeout(expected) == Min(expected.timeout_seconds, POLICY_MAX_TIMEOUT)

\* a plausible slip: a failed service call is sent again
execute_proposal_call_service_retry(r, run, response, now) ==
    IF ~response.ok
    THEN Outcome(run, <<>>, <<ha_call_service(r, run.proposal.action)>>)
    ELSE verify_outcome_loop(r,
            [run EXCEPT !.service_result = ServiceResult(run.proposal.action, response.value),
                        !.start_time = now, !.last_state = EmptyDict,
                        !.deadline = now + effective_timeout(run.proposal.action.expected_outcome)],
            now)

\* a plausible slip: the receipt of a failed service call leaves before_state out
execute_proposal_call_service_no_before(r, run, response, now) ==
    LET proposal == run.proposal
        called == [run EXCEPT !.service_response = response]
    IN  IF ~response.ok THEN
            ReturnReceipt(called, <<>>,
                ExecutionReceipt(proposal.proposal_id, "failed", run.law.policy_basis, None,
                    Verification(FALSE,
                        <<"Service call failed: ">> \o _sanitize_error(response.exc)),
                    None, None,
                    <<"HA service call failed for ">> \o proposal.action.target.entity_id))
        ELSE
            verify_outcome_loop(r,
                [called EXCEPT !.service_result = ServiceResult(proposal.action, response.value),
                               !.start_time = now,
                               !.deadline = now + effective_timeout(proposal.action.expected_outcome),
                               !.last_state = EmptyDict],
                now)

\* steps 4 and 5: from the service call into verify_outcome, to its first poll
execute_proposal_call_service(r, run, response, now) ==
    LET proposal == run.proposal
        expected == proposal.action.expected_outcome
        called == [run EXCEPT !.service_response = response]
    IN  IF ~response.ok THEN
            ReturnReceipt(called, <<>>,
                ExecutionReceipt(proposal.proposal_id, "failed", run.law.policy_basis, None,
                    Verification(FALSE,
                        <<"Service call failed: ">> \o _sanitize_error(response.exc)),
                    run.before_state, None,
                    <<"HA service call failed for ">> \o proposal.action.target.entity_id))
        ELSE
            verify_outcome_loop(r,
                [called EXCEPT !.service_result = ServiceResult(proposal.action, response.value),
                               !.start_time = now,
                               !.deadline = now + effective_timeout(expected),
                               !.last_state = EmptyDict],
                now)

\* a plausible slip: the poll's exception is not caught and leaves verify_outcome
verify_outcome_except_escapes(polled, exc, now) ==
    Outcome([polled EXCEPT !.pc = "raised"], <<>>, <<>>)

\* `except Exception as exc`: the error is kept, sanitized, and the loop sleeps
verify_outcome_except(polled, exc, now) ==
    Outcome([polled EXCEPT !.pc = "sleeping", !.wake_at = now + POLL_INTERVAL_SECONDS,
                           !.last_state = [error |-> _sanitize_error(exc)]],
            <<>>, <<>>)

\* verify_outcome from the poll's answer to asyncio.sleep, or to the receipt
verify_outcome_poll(r, run, response, now) ==
    LET verify == run.proposal.action.expected_outcome.verify
        polled == [run EXCEPT !.polls[Len(run.polls)].answer = response]
        asleep == [polled EXCEPT !.pc = "sleeping", !.wake_at = now + POLL_INTERVAL_SECONDS]
    IN  IF ~response.ok THEN
            verify_outcome_except(polled, response.exc, now)
        ELSE IF ValuesMatch(verify.equals, response.value.state) THEN
            execute_proposal_finish(polled, TRUE,
                <<"Verified: ">> \o verify.entity_id \o <<".", verify.attribute, " expected ">>
                    \o Repr(verify.equals) \o <<"; observed ">> \o Repr(response.value.state)
                    \o <<" after ">> \o PollsText(now - run.start_time, run.poll_count),
                response.value)
        ELSE
            Outcome([asleep EXCEPT !.last_state = response.value], <<>>, <<>>)

(***************************************************************************)
(* Spec: runs of execute_proposal on one event loop, against a Home        *)
(* Assistant that answers each request with a state or with an error.      *)
(***************************************************************************)
MaxRuns == 1
MaxLoopTime == 1

TokenTk == <<"t", "k">>
TokenC1 == <<"c", "1">>
TokenS2 == <<"s", "2">>

\* the proposals submitted: allowed and denied ones, with and without tokens,
\* and justifications that repeat a secret
AppProposals ==
    {ExecutionProposal(1, HAAction("turn_on", IdLamp, IdLamp, StateOn, "room", 1),
                       <<"j">>, TokenC1, TokenS2),
     ExecutionProposal(2, HAAction("toggle_entity", IdLamp, IdLamp, StateOff, "room", 2),
                       TokenTk, NoText, NoText),
     ExecutionProposal(3, HAAction("turn_on", IdLamp, IdSwitch, StateOn, "single_device", 1),
                       <<"o", "k", " ">> \o TokenC1, TokenC1, NoText),
     ExecutionProposal(4, HAAction("turn_off", IdSwitch, IdSwitch, StateOff, "room", 1),
                       <<"j">>, NoText, TokenS2),
     ExecutionProposal(5, HAAction("turn_on", IdLamp, IdLamp, StateOn, "whole_home", 1),
                       <<"j">>, TokenC1, TokenS2)}

\* str(exc) of the errors the HTTP client raises
ErrorTexts ==
    {<<"G", "E", "T", " ", "?", "k", "=">> \o TokenTk,
     <<"{", "'", "Authorization", "'", ":", " ", "'", "Bearer", " ">> \o TokenTk \o <<"'", "}">>}

GetResponses(entity_id) ==
    {Returned(HAState(entity_id, s)) : s \in {StateOn, StateOff}}
        \cup {Raised(e) : e \in ErrorTexts}

PostResponses == {Returned(200)} \cup {Raised(e) : e \in ErrorTexts}

Init ==
    /\ HA_TOKEN \in {<<>>, TokenTk}
    /\ ALLOWED_ACTION_TYPES = ActionTypes
    /\ SHAMMASH_ALLOWLIST = {IdLamp}
    /\ POLICY_MAX_BLAST_RADIUS = "room"
    /\ POLICY_MAX_TIMEOUT \in {0, 1, 2}
    /\ POLICY_ENFORCE_TARGET_VERIFY \in BOOLEAN
    /\ LawIdle
    /\ clock = 1
    /\ RLIdle
    /\ GateIdle
    /\ AppIdle

\* a plausible slip: a failed audit append is swallowed and the step carries on
AfterAppends_best_effort(before, outcome, written) == outcome.run

\* the run after a step whose append_audit_event calls succeeded `written`
\* times: when a later one raised, the exception left execute_proposal
AfterAppends(before, outcome, written) ==
    IF written = Len(outcome.events) THEN outcome.run
    ELSE [before EXCEPT !.pc = "raised"]

\* a plausible slip: the request is sent before the audit event is appended,
\* so it goes out even when the append raises
Applied_sends_first(r, before, outcome, written) ==
    /\ runs' = IF r > Len(runs) THEN Append(runs, AfterAppends(before, outcome, written))
               ELSE [runs EXCEPT ![r] = AfterAppends(before, outcome, written)]
    /\ audit_jsonl' = audit_jsonl \o SubSeq(outcome.events, 1, written)
    /\ audit_file' = append_audit_events(audit_file, SubSeq(outcome.events, 1, written))
    /\ ha_requests' = ha_requests \o outcome.requests
    /\ UNCHANGED <<policyVars, lawVars, clock, rlVars, rl_calls, gateVars, loop_time, cmpVars,
                   sanVars>>

\* the effect of one step of run r, in which append_audit_event wrote the
\* first `written` events of the step and raised on the next one, if any
Applied(r, before, outcome, written) ==
    /\ runs' = IF r > Len(runs) THEN Append(runs, AfterAppends(before, outcome, written))
               ELSE [runs EXCEPT ![r] = AfterAppends(before, outcome, written)]
    /\ audit_jsonl' = audit_jsonl \o SubSeq(outcome.events, 1, written)
    /\ audit_file' = append_audit_events(audit_file, SubSeq(outcome.events, 1, written))
    /\ ha_requests' = ha_requests \o
          (IF written = Len(outcome.events) THEN outcome.requests ELSE <<>>)
    /\ UNCHANGED <<policyVars, lawVars, clock, rlVars, rl_calls, gateVars, loop_time, cmpVars,
                   sanVars>>

\* the effect of one step of run r: each audit append of it may raise OSError
Apply(r, outcome) ==
    \E written \in 0..Len(outcome.events) :
        Applied(r, IF r > Len(runs) THEN NewRun(outcome.run.proposal) ELSE runs[r],
                outcome, written)

\* POST /execute/proposal arrives
Start(proposal) ==
    /\ Len(runs) < MaxRuns
    /\ Apply(Len(runs) + 1, execute_proposal_begin(Len(runs) + 1, proposal))

\* the before-state read of run r returns or raises
BeforeStateReturns(r, response) ==
    /\ runs[r].pc = "await_before_state"
    /\ Apply(r, execute_proposal_before_state(r, runs[r], response))

\* the service call of run r returns or raises
CallServiceReturns(r, response) ==
    /\ runs[r].pc = "await_call_service"
    /\ Apply(r, execute_proposal_call_service(r, runs[r], response, loop_time))

\* a verification poll of run r returns or raises
PollReturns(r, response) ==
    /\ runs[r].pc = "await_poll"
    /\ Apply(r, verify_outcome_poll(r, runs[r], response, loop_time))

\* asyncio.sleep(POLL_INTERVAL_SECONDS) of run r is over
Wake(r) ==
    /\ runs[r].pc = "sleeping"
    /\ loop_time >= runs[r].wake_at
    /\ Apply(r, verify_outcome_loop(r, runs[r], loop_time))

\* the event loop's clock advances
AppTick ==
    /\ \/ loop_time < MaxLoopTime
       \/ \E r \in 1..Len(runs) : runs[r].pc = "sleeping" /\ runs[r].wake_at > loop_time
    /\ loop_time' = loop_time + 1
    /\ UNCHANGED <<policyVars, lawVars, clock, rlVars, rl_calls, gateVars,
                   runs, audit_jsonl, audit_file, ha_requests, cmpVars, sanVars>>

Next ==
    \/ \E proposal \in AppProposals : Start(proposal)
    \/ \E r \in 1..Len(runs) :
          \E response \in GetResponses(runs[r].proposal.action.target.entity_id) :
             BeforeStateReturns(r, response)
    \/ \E r \in 1..Len(runs) : \E response \in PostResponses : CallServiceReturns(r, response)
    \/ \E r \in 1..Len(runs) :
          \E response \in GetResponses(runs[r].proposal.action.expected_outcome.verify.entity_id) :
             PollReturns(r, response)
    \/ \E r \in 1..Len(runs) : Wake(r)
    \/ AppTick

Spec == Init /\ [][Next]_vars

(***************************************************************************)
(* Claims about execute_proposal                                           *)
(***************************************************************************)
\* the positions in ha_requests of the service calls of run r
ServiceCalls(r) ==
    {i \in 1..Len(ha_requests) :
        ha_requests[i].run = r /\ ha_requests[i].call = "ha_call_service"}

\* C1: a run in which evaluate_law denied the proposal has returned a receipt
\* with decision "denied" whose policy_basis[0] is "law.v1.default_deny", and
\* has not called ha_call_service; nor does any run call it for a proposal
\* that evaluate_law denies under the policy in force.
C1_DeniedNeverReachesDevice ==
    \A r \in 1..Len(runs) :
        /\ (runs[r].law # None /\ ~runs[r].law.allowed) =>
              /\ runs[r].pc = "done"
              /\ runs[r].receipt.decision = "denied"
              /\ runs[r].receipt.policy_basis[1] = <<"law.v1.default_deny">>
              /\ ServiceCalls(r) = {}
        /\ ~evaluate_law(runs[r].proposal).allowed => ServiceCalls(r) = {}

\* a run that Law denied has returned its receipt
C1_Witness ==
    \E r \in 1..Len(runs) :
        /\ runs[r].law # None
        /\ ~runs[r].law.allowed
        /\ runs[r].pc = "done"
        /\ runs[r].receipt.decision = "denied"

\* C2: in a run whose proposal Law allowed, ha_call_service is issued at most
\* once, at every point of the run and after it: neither a failed call nor a
\* failed verification leads to a second call.
C2_ServiceCalledAtMostOnce ==
    \A r \in 1..Len(runs) :
        (runs[r].law # None /\ runs[r].law.allowed) => Cardinality(ServiceCalls(r)) <= 1

\* an allowed run made its one service call and ended as failed
C2_Witness ==
    \E r \in 1..Len(runs) :
        /\ runs[r].law # None
        /\ runs[r].law.allowed
        /\ runs[r].pc = "done"
        /\ runs[r].receipt.decision = "failed"
        /\ Cardinality(ServiceCalls(r)) = 1

\* the text values of a state dict, of a receipt and of an audit event
StateTexts(st) ==
    IF st = None \/ st = EmptyDict THEN {}
    ELSE IF "error" \in DOMAIN st THEN {st.error}
    ELSE {st.entity_id, st.state}

ActionTakenTexts(action_taken) ==
    IF action_taken = None THEN {}
    ELSE {action_taken.entity_id, action_taken.endpoint, action_taken.domain_service,
          action_taken.payload.entity_id}

ReceiptTexts(receipt) ==
    {receipt.verification.evidence, receipt.failure_language_hint, receipt.audit_ref}
        \cup Range(receipt.policy_basis)
        \cup ActionTakenTexts(receipt.action_taken)
        \cup StateTexts(receipt.before_state)
        \cup StateTexts(receipt.after_state)

ProposalDumpTexts(data) ==
    {data.justification, data.action.target.entity_id,
     data.action.expected_outcome.verify.entity_id,
     data.action.expected_outcome.verify.equals}
        \cup (IF "confirmation_token" \in DOMAIN data THEN {data.confirmation_token} ELSE {})
        \cup (IF "steward_key_token" \in DOMAIN data THEN {data.steward_key_token} ELSE {})

EventTexts(event) ==
    CASE event.event_type = "execution_proposal.in" -> ProposalDumpTexts(event.payload)
      [] event.event_type = "law_decision" ->
            Range(event.payload.policy_basis) \cup {event.payload.reason}
      [] event.event_type = "execution_attempt" -> {event.payload.entity_id}
      [] OTHER -> ReceiptTexts(event.payload)

\* the secrets that must not appear where proposal proposal_id is written about:
\* the configured HA token and the tokens that proposal carried
SecretsOf(proposal_id) ==
    ({HA_TOKEN} \cup UNION {{runs[r].proposal.confirmation_token,
                             runs[r].proposal.steward_key_token} :
                            r \in {q \in 1..Len(runs) :
                                      runs[q].proposal.proposal_id = proposal_id}})
        \ {<<>>, NoText}

\* no returned receipt holds a secret in any of its fields
NoSecretInReceipts ==
    \A r \in 1..Len(runs) :
        runs[r].receipt # None =>
            \A t \in ReceiptTexts(runs[r].receipt) :
                \A secret \in SecretsOf(runs[r].proposal.proposal_id) : ~Contains(t, secret)

\* C3 as claimed: no line of the audit file and no returned receipt contains,
\* in any field, the configured HA token or the value of the proposal's
\* confirmation_token or steward_key_token.
C3_NoSecretInAuditOrReceipt ==
    /\ NoSecretInReceipts
    /\ \A i \in 1..Len(audit_jsonl) :
          \A t \in EventTexts(audit_jsonl[i]) :
             \A secret \in SecretsOf(audit_jsonl[i].correlation.proposal_id) :
                ~Contains(t, secret)

(***************************************************************************)
(* SpecPure: evaluate_law called again and again, on any proposal of       *)
(* PureProposals in any order, each call and its result recorded.          *)
(***************************************************************************)
MaxLawCalls == 3

PureProposals ==
    {ExecutionProposal(1, HAAction(t, e, IdLamp, StateOn, b, 1), <<"j">>, NoText, NoText) :
        e \in {IdLamp, IdSwitch}, t \in {"turn_on", "turn_off"}, b \in {"room", "whole_home"}}

InitPure ==
    /\ HA_TOKEN = TokenTk
    /\ ALLOWED_ACTION_TYPES \in {{"turn_on"}, ActionTypes}
    /\ SHAMMASH_ALLOWLIST = {IdLamp}
    /\ POLICY_MAX_BLAST_RADIUS = "room"
    /\ POLICY_MAX_TIMEOUT = 1
    /\ POLICY_ENFORCE_TARGET_VERIFY \in BOOLEAN
    /\ LawIdle
    /\ clock = 1
    /\ RLIdle
    /\ GateIdle
    /\ AppIdle

\* law = evaluate_law(proposal), the call and what it returned kept in law_calls
EvaluateLawAgain(p) ==
    /\ Len(law_calls) < MaxLawCalls
    /\ law_in' = p
    /\ law_out' = evaluate_law(p)
    /\ law_calls' = Append(law_calls, [proposal |-> p, decision |-> evaluate_law(p)])
    /\ UNCHANGED <<policyVars, appVars, clock, rlVars, rl_calls, gateVars>>

NextPure == \E p \in PureProposals : EvaluateLawAgain(p)

SpecPure == InitPure /\ [][NextPure]_vars

\* any two recorded evaluations of one proposal returned the same LawDecision
SameAnswers ==
    \A i, j \in 1..Len(law_calls) :
        law_calls[i].proposal = law_calls[j].proposal =>
            law_calls[i].decision = law_calls[j].decision

StageEntries(proposal_id, stage) ==
    {k \in 1..Len(audit_log) :
        audit_log[k].proposal_id = proposal_id /\ audit_log[k].stage = stage}

\* propose, explain, decision and execute entries about proposal_id, in that order
FullTrail(proposal_id) ==
    \E a \in StageEntries(proposal_id, "propose") :
      \E b \in StageEntries(proposal_id, "explain") :
        \E c \in StageEntries(proposal_id, "decision") :
          \E d \in StageEntries(proposal_id, "execute") :
            a < b /\ b < c /\ c < d

\* execute call e was made with a decision taken on its own proposal
OwnDecision(e) == e.decision.proposal_id = e.proposal.proposal_id

\* C12 as claimed: once a proposal has been proposed, decided and executed,
\* the audit log holds a propose, an explain, a decision and an execute entry
\* for its proposal_id, in that order, whichever way execute went.
C12_FullTrailOnEveryPath ==
    \A i \in 1..Len(executions) :
        OwnDecision(executions[i]) => FullTrail(executions[i].proposal.proposal_id)

\* the same for the execute calls that returned a result
FullTrailWhenReturned ==
    \A i \in 1..Len(executions) :
        (OwnDecision(executions[i]) /\ executions[i].result # None) =>
            FullTrail(executions[i].proposal.proposal_id)

\* AuditLog.entries: the file's lines, parsed in file order
entries ==
    [k \in 1..Len(audit_log) |->
        AuditEntry(audit_log[k].proposal_id, audit_log[k].trace_id, audit_log[k].stage,
                   audit_log[k].payload, audit_log[k].timestamp)]

IsPrefix(s, t) == Len(s) <= Len(t) /\ SubSeq(t, 1, Len(s)) = s

\* C14: the audit log is append-only: whatever operation of the gate runs,
\* entries() before it is a prefix of entries() after it, so that no entry
\* is rewritten, reordered or deleted and each new entry comes last.
C14_AppendOnly == [][IsPrefix(entries, entries')]_vars

\* C14: a whole trail was written, one operation after the other
C14_Witness ==
    /\ Len(entries) = 5
    /\ [k \in 1..5 |-> entries[k].stage] =
          <<"propose", "explain", "decision", "execute", "learn">>

(***************************************************************************)
(* Claims about the audit trail of execute_proposal                        *)
(***************************************************************************)
\* the event types, in file order, of the audit events about one proposal
EventTypesOf(proposal_id) ==
    LET about(event) == event.correlation.proposal_id = proposal_id
        events == SelectSeq(audit_jsonl, about)
    IN  [k \in 1..Len(events) |-> events[k].event_type]

\* no other run is about the proposal of run r (proposal ids are unique)
OnlyRunOf(r) ==
    \A q \in 1..Len(runs) :
        runs[q].proposal.proposal_id = runs[r].proposal.proposal_id => q = r

\* the events of a returned run r are those of the pipeline, in its order
InPipelineOrder(r) ==
    LET types == EventTypesOf(runs[r].proposal.proposal_id)
    IN  \/ types = <<"execution_proposal.in", "law_decision", "execution_receipt.out">>
        \/ /\ types = <<"execution_proposal.in", "law_decision", "execution_attempt",
                        "execution_receipt.out">>
           /\ ServiceCalls(r) # {}

\* C13 as claimed: once a run of execute_proposal has returned its receipt,
\* the audit events of its proposal_id are execution_proposal.in, law_decision,
\* execution_attempt only if the service call was attempted, and one
\* execution_receipt.out, in that order, whatever other runs interleave.
C13_EventsInPipelineOrder ==
    \A r \in 1..Len(runs) :
        (runs[r].pc = "done" /\ OnlyRunOf(r)) => InPipelineOrder(r)

\* the same for the runs that found HA_TOKEN configured
PipelineOrderWithToken ==
    \A r \in 1..Len(runs) :
        (runs[r].pc = "done" /\ OnlyRunOf(r) /\ HA_TOKEN # <<>>) => InPipelineOrder(r)

\* the execution_receipt.out event of the receipt run r returned is in the file
ReceiptWritten(r) ==
    \E k \in 1..Len(audit_jsonl) :
        /\ audit_jsonl[k].event_type = "execution_receipt.out"
        /\ audit_jsonl[k].correlation.proposal_id = runs[r].proposal.proposal_id
        /\ audit_jsonl[k].payload = runs[r].receipt

\* a run that an audit append's error left has returned nothing, and a
\* returned receipt has its execution_receipt.out event written
NoReceiptWithoutEvent ==
    \A r \in 1..Len(runs) :
        /\ runs[r].pc = "raised" => runs[r].receipt = None
        /\ runs[r].receipt # None => ReceiptWritten(r)

\* C15: when an audit append fails in a step of execute_proposal the error
\* leaves the run, which returns no receipt then or later and does nothing
\* more; no receipt is returned whose execution_receipt.out event was not
\* written.
C15_AuditFailurePropagates ==
    /\ []NoReceiptWithoutEvent
    /\ [][\A r \in 1..Len(runs) : runs[r].pc = "raised" => runs'[r] = runs[r]]_vars

\* the append of the receipt's event failed after the service call was made
C15_Witness ==
    \E r \in 1..Len(runs) :
        /\ runs[r].pc = "raised"
        /\ ServiceCalls(r) # {}
        /\ EventTypesOf(runs[r].proposal.proposal_id) =
              <<"execution_proposal.in", "law_decision", "execution_attempt">>

(***************************************************************************)
(* Claims about verify_outcome                                             *)
(***************************************************************************)
\* run r has entered verify_outcome
Verifying(r) == runs[r].service_result # None

\* verify_outcome of run r has returned, and execute_proposal after it
Verified(r) == Verifying(r) /\ runs[r].pc = "done"

\* C16: the timeout verify_outcome works with is the lesser of the proposal's
\* timeout_seconds and the policy's max_timeout_seconds, so it never exceeds
\* the policy's maximum, and no poll begins at or after start + max_timeout_seconds.
C16_TimeoutClamped ==
    \A r \in 1..Len(runs) :
        Verifying(r) =>
            LET effective == runs[r].deadline - runs[r].start_time
                requested == runs[r].proposal.action.expected_outcome.timeout_seconds
            IN  /\ effective <= requested
                /\ effective <= POLICY_MAX_TIMEOUT
                /\ effective \in {requested, POLICY_MAX_TIMEOUT}
                /\ \A k \in 1..Len(runs[r].polls) :
                      runs[r].polls[k].at < runs[r].start_time + POLICY_MAX_TIMEOUT

\* a proposal asking for more than the policy's maximum was polled and timed out
C16_Witness ==
    \E r \in 1..Len(runs) :
        /\ Verified(r)
        /\ runs[r].proposal.action.expected_outcome.timeout_seconds > POLICY_MAX_TIMEOUT
        /\ Len(runs[r].polls) >= 1
        /\ ~runs[r].receipt.verification.pass

\* C17 as claimed: verify_outcome has polled at least once when it returns,
\* whatever the deadline was on entering its loop.
C17_AtLeastOnePoll ==
    \A r \in 1..Len(runs) : Verified(r) => runs[r].poll_count >= 1

\* the same under a policy whose max_timeout_seconds is positive
AtLeastOnePollWhenPositive ==
    \A r \in 1..Len(runs) :
        (Verified(r) /\ POLICY_MAX_TIMEOUT > 0) => runs[r].poll_count >= 1

\* the last poll of run r, once answered
LastPoll(run) == run.polls[Len(run.polls)]

\* the poll run r was waiting for is answered with an error in this step
PollRaises(r) ==
    /\ runs[r].pc = "await_poll"
    /\ runs'[r] # runs[r]
    /\ LastPoll(runs'[r]).answer # None
    /\ ~LastPoll(runs'[r]).answer.ok

\* C18: an error raised by a poll does not end verification: the run goes to
\* sleep with last_state = {error: the sanitized message}; a sleeping run polls
\* again when it wakes before the deadline and gives up only at or after it;
\* a matching poll that follows an error still passes; nothing escapes.
C18_PollErrorDoesNotAbort ==
    /\ [][\A r \in 1..Len(runs) :
            /\ PollRaises(r) =>
                  /\ runs'[r].pc = "sleeping"
                  /\ runs'[r].last_state =
                        [error |-> _sanitize_error(LastPoll(runs'[r]).answer.exc)]
            /\ (runs[r].pc = "sleeping" /\ runs'[r] # runs[r]) =>
                  IF loop_time < runs[r].deadline
                  THEN runs'[r].pc = "await_poll"
                  ELSE runs'[r].pc \in {"done", "raised"}]_vars
    /\ [](\A r \in 1..Len(runs) :
            (Verified(r) /\ Len(runs[r].polls) >= 1 /\ LastPoll(runs[r]).answer.ok
                /\ ValuesMatch(runs[r].proposal.action.expected_outcome.verify.equals,
                               LastPoll(runs[r]).answer.value.state))
            => runs[r].receipt.verification.pass)

\* a poll raised, the next one saw the expected state, and verification passed
C18_Witness ==
    \E r \in 1..Len(runs) :
        /\ Verified(r)
        /\ Len(runs[r].polls) = 2
        /\ ~runs[r].polls[1].answer.ok
        /\ runs[r].polls[2].answer.ok
        /\ runs[r].receipt.verification.pass
        /\ runs[r].receipt.decision = "allowed"

\* poll k of the run was answered with the state that was expected
Matching(run, k) ==
    /\ run.polls[k].answer # None
    /\ run.polls[k].answer.ok
    /\ run.polls[k].answer.value.state = run.proposal.action.expected_outcome.verify.equals

\* what the polls of the run saw last: '<unknown>' after an error or no poll
LastObserved(run) ==
    IF run.polls # <<>> /\ LastPoll(run).answer.ok
    THEN LastPoll(run).answer.value.state
    ELSE <<"<unknown>">>

\* C19: verify_outcome passes exactly when a poll, begun before the deadline,
\* saw the expected value; that poll is its last one and the first to see it;
\* otherwise it fails with evidence that begins with "Timeout" and reports
\* the expected value, the value seen last and the number of polls.
C19_PassedIffPollMatched ==
    \A r \in 1..Len(runs) :
        LET run == runs[r]
            polls == run.polls
            verify == run.proposal.action.expected_outcome.verify
        IN  /\ Verifying(r) =>
                  /\ \A k \in 1..Len(polls) : polls[k].at < run.deadline
                  /\ \A k \in 1..(Len(polls) - 1) : ~Matching(run, k)
            /\ Verified(r) =>
                  /\ run.receipt.verification.pass <=>
                        \E k \in 1..Len(polls) : Matching(run, k)
                  /\ run.receipt.verification.pass => Matching(run, Len(polls))
                  /\ ~run.receipt.verification.pass =>
                        LET evidence == run.receipt.verification.evidence
                        IN  /\ Head(evidence) = "Timeout: "
                            /\ Contains(evidence,
                                  <<" expected ">> \o Repr(verify.equals)
                                      \o <<"; observed ">> \o Repr(LastObserved(run)))
                            /\ Contains(evidence,
                                  <<"s (", ToString(Len(polls)), " poll">>)

\* two polls saw another state than the expected one, and verification timed out
C19_Witness ==
    \E r \in 1..Len(runs) :
        /\ Verified(r)
        /\ Len(runs[r].polls) = 2
        /\ runs[r].polls[1].answer.ok
        /\ runs[r].polls[2].answer.ok
        /\ ~runs[r].receipt.verification.pass
        /\ runs[r].receipt.decision = "failed"

(***************************************************************************)
(* Claims about the failure paths of execute_proposal                      *)
(***************************************************************************)
\* the positions in ha_requests of the state reads of run r
StateReads(r) ==
    {i \in 1..Len(ha_requests) :
        ha_requests[i].run = r /\ ha_requests[i].call = "ha_get_state"}

\* the before-state read of the run raised
BeforeReadFailed(run) == run.before_read # None /\ ~run.before_read.ok

\* the service call of the run raised
ServiceCallFailed(run) == run.service_response # None /\ ~run.service_response.ok

\* C21: a run whose before-state read failed returns a receipt with decision
\* "failed" whose evidence is the sanitized error, free of the token, and the
\* run makes no service call and no verification poll: its only request is
\* the read that failed.
C21_BeforeReadFailureStops ==
    \A r \in 1..Len(runs) :
        BeforeReadFailed(runs[r]) =>
            /\ runs[r].pc = "done"
            /\ runs[r].receipt.decision = "failed"
            /\ ~runs[r].receipt.verification.pass
            /\ runs[r].receipt.verification.evidence =
                  <<"Failed to read before-state: ">>
                      \o _sanitize_error(runs[r].before_read.exc)
            /\ ~Contains(runs[r].receipt.verification.evidence, HA_TOKEN)
            /\ ServiceCalls(r) = {}
            /\ runs[r].polls = <<>>
            /\ Cardinality(StateReads(r)) = 1

\* the read failed with an error that spelled the token, and the run returned
C21_Witness ==
    \E r \in 1..Len(runs) :
        /\ BeforeReadFailed(runs[r])
        /\ Contains(runs[r].before_read.exc, HA_TOKEN)
        /\ runs[r].pc = "done"
        /\ runs[r].receipt.decision = "failed"

\* C22: a run whose service call failed returns a receipt with decision
\* "failed", before_state the state read before the call, no action_taken
\* and no after_state, and makes no verification poll.
C22_ServiceFailureReceipt ==
    \A r \in 1..Len(runs) :
        ServiceCallFailed(runs[r]) =>
            /\ runs[r].pc = "done"
            /\ runs[r].receipt.decision = "failed"
            /\ ~runs[r].receipt.verification.pass
            /\ runs[r].receipt.before_state = runs[r].before_read.value
            /\ runs[r].receipt.action_taken = None
            /\ runs[r].receipt.after_state = None
            /\ runs[r].polls = <<>>
            /\ Cardinality(StateReads(r)) = 1

\* the state was read, the call failed, and the run returned
C22_Witness ==
    \E r \in 1..Len(runs) :
        /\ ServiceCallFailed(runs[r])
        /\ runs[r].before_read.ok
        /\ runs[r].pc = "done"
        /\ runs[r].receipt.before_state = runs[r].before_read.value

\* the service call of the run succeeded and its verification timed out
TimedOut(run) ==
    /\ run.service_response # None
    /\ run.service_response.ok
    /\ run.pc = "done"
    /\ \A k \in 1..Len(run.polls) : ~Matching(run, k)

\* C23: a returned receipt has decision "allowed" exactly when its
\* verification passed, on every path; a run whose service call succeeded
\* and whose verification timed out has decision "failed".
C23_AllowedIffVerified ==
    \A r \in 1..Len(runs) :
        runs[r].pc = "done" =>
            /\ runs[r].receipt.decision = "allowed" <=> runs[r].receipt.verification.pass
            /\ runs[r].receipt.decision \in {"allowed", "denied", "failed"}
            /\ TimedOut(runs[r]) => runs[r].receipt.decision = "failed"

\* the call succeeded, a poll saw another state, the receipt says failed
C23_Witness ==
    \E r \in 1..Len(runs) :
        /\ TimedOut(runs[r])
        /\ Len(runs[r].polls) >= 1
        /\ runs[r].receipt.decision = "failed"
        /\ runs[r].receipt.action_taken # None

\* the requests run r has sent to Home Assistant
RequestsOf(r) == {i \in 1..Len(ha_requests) : ha_requests[i].run = r}

\* C29: with no device API token configured, a run evaluates no Law and sends
\* no state read and no service call, and the receipt it returns has decision
\* "failed" and law.v1.misconfigured.no_token in its policy_basis.
C29_NoTokenFailsFast ==
    HA_TOKEN = <<>> =>
        \A r \in 1..Len(runs) :
            /\ runs[r].law = None
            /\ RequestsOf(r) = {}
            /\ runs[r].pc \in {"done", "raised"}
            /\ runs[r].pc = "done" =>
                  /\ runs[r].receipt.decision = "failed"
                  /\ <<"law.v1.misconfigured.no_token">> \in Range(runs[r].receipt.policy_basis)
                  /\ ~runs[r].receipt.verification.pass

\* without a token, a proposal that Law would allow got the failed receipt
C29_Witness ==
    /\ HA_TOKEN = <<>>
    /\ \E r \in 1..Len(runs) :
          /\ runs[r].pc = "done"
          /\ evaluate_law(runs[r].proposal).allowed
          /\ runs[r].receipt.decision = "failed"

(***************************************************************************)
(* Claims about the gate's rate limit, decisions and failures              *)
(***************************************************************************)
\* the execute calls made for the actor with an approved decision
ApprovedBy(actor) ==
    {i \in 1..Len(executions) :
        executions[i].proposal.actor = actor /\ executions[i].decision.approved}

\* how many of them were made up to call i
Rank(actor, i) == Cardinality({j \in ApprovedBy(actor) : j <= i})

\* the window is longer than the time from the first of them to the last
WindowCoversRun(actor) ==
    \A i, j \in ApprovedBy(actor) :
        executions[j].start - executions[i].start < window_seconds

\* C24: when one actor's approved execute calls all fall within a window
\* longer than the run, the first `limit` of them reach the executor and the
\* next one returns SKIPPED with reason "rate limit exceeded" without calling
\* the executor.
C24_RateLimitSkipsNext ==
    \A actor \in Actors :
        WindowCoversRun(actor) =>
            \A i \in ApprovedBy(actor) :
                /\ Rank(actor, i) <= limit => executions[i].executor_called
                /\ Rank(actor, i) = limit + 1 =>
                      /\ ~executions[i].executor_called
                      /\ executions[i].result # None
                      /\ executions[i].result.status = "SKIPPED"
                      /\ executions[i].result.details = "rate limit exceeded"

\* limit 1: two proposals of one actor executed at once, the second one skipped
C24_Witness ==
    /\ limit = 1
    /\ Len(executions) = 2
    /\ ApprovedBy("agent") = {1, 2}
    /\ WindowCoversRun("agent")
    /\ executions[1].proposal # executions[2].proposal
    /\ executions[1].executor_called
    /\ executions[2].result # None
    /\ executions[2].result.details = "rate limit exceeded"

(***************************************************************************)
(* Claims about RateLimiter.accept below the cap                           *)
(***************************************************************************)
\* the accept calls made for the actor
CallsOf(actor) == {i \in 1..Len(rl_calls) : rl_calls[i].actor = actor}

\* the hits of a list that lie in [now - window_seconds, now]
HitsWithin(hits, now) ==
    {k \in 1..Len(hits) : now - window_seconds <= hits[k] /\ hits[k] <= now}

\* every call of the actor is admitted below the cap, and calls that all carry
\* the same `now` are admitted up to the cap and no further
AdmitsBelowCap(actor) ==
    /\ \A i \in CallsOf(actor) :
          Cardinality(HitsWithin(rl_calls[i].before, rl_calls[i].now)) < limit =>
              rl_calls[i].decision.allowed
    /\ (\A i, j \in CallsOf(actor) : rl_calls[i].now = rl_calls[j].now) =>
          \A i \in CallsOf(actor) :
              rl_calls[i].decision.allowed <=>
                  Cardinality({j \in CallsOf(actor) : j <= i}) <= limit

\* C25 as claimed: over calls with non-decreasing `now`, accept admits a call
\* whenever fewer than `limit` of the actor's hits lie in
\* [now - window_seconds, now], and of n calls with one and the same `now`
\* on an empty history exactly the first min(n, limit) are admitted.
C25_NeverRefusesBelowCap ==
    NonDecreasingNow => \A actor \in Actors : AdmitsBelowCap(actor)

\* the same when every call is given a `now` that is not zero
AdmitsBelowCapNonZeroNow ==
    (NonDecreasingNow /\ \A i \in 1..Len(rl_calls) : rl_calls[i].now # 0)
        => \A actor \in Actors : AdmitsBelowCap(actor)

(***************************************************************************)
(* Claims about decide                                                     *)
(***************************************************************************)
\* the proposal names an allowlisted action on an allowlisted resource
Allowlisted(proposal) ==
    proposal.action \in allowlist.actions /\ proposal.resource \in allowlist.resources

\* the proposal has a rollback plan: one that is neither absent nor empty
HasRollbackPlan(proposal) == proposal.rollback_plan \notin {NoPlan, ""}

\* decide auto-approved without asking decision_fn
AutoApproved(d) ==
    /\ d.decision.approved
    /\ d.decision.reason = "auto-approved"
    /\ d.decision_fn_calls = 0

\* decide asked decision_fn exactly once and took its return value
AskedOnce(d) ==
    /\ d.decision_fn_calls = 1
    /\ Len(d.decision_fn_returns) = 1
    /\ d.decision.approved = d.decision_fn_returns[1]

\* C26 as claimed: decide auto-approves (reason "auto-approved", decision_fn
\* never called) a proposal that is allowlisted, in a safe domain and has a
\* rollback plan; any other proposal, one whose rollback plan is absent or
\* empty included, goes to decision_fn exactly once and gets its answer.
C26_AutoApproveOrAskOnce ==
    \A i \in 1..Len(decisions) :
        LET d == decisions[i]
        IN  IF /\ Allowlisted(d.proposal)
               /\ d.proposal.domain \in safe_domains
               /\ HasRollbackPlan(d.proposal)
            THEN AutoApproved(d)
            ELSE AskedOnce(d)

\* the same with "reversible" read as the source tests it: rollback_plan is
\* not None
AutoApproveOrAskOnceNotNone ==
    \A i \in 1..Len(decisions) :
        LET d == decisions[i]
        IN  IF /\ Allowlisted(d.proposal)
               /\ d.proposal.domain \in safe_domains
               /\ d.proposal.rollback_plan # NoPlan
            THEN AutoApproved(d)
            ELSE AskedOnce(d)

(***************************************************************************)
(* Claims about execute: sealing and failure containment                   *)
(***************************************************************************)
\* the execute calls i < j were given the same (proposal, decision) pair
SamePair(i, j) ==
    /\ i < j
    /\ executions[i].proposal = executions[j].proposal
    /\ executions[i].decision = executions[j].decision

\* C27 as claimed: once execute has completed for a (proposal, decision)
\* pair and run its executor, no further execute call with the same pair
\* calls the executor again.
C27_PairSealedAfterExecute ==
    \A i, j \in 1..Len(executions) :
        (/\ SamePair(i, j)
         /\ executions[i].executor_called
         /\ executions[i].result # None) => ~executions[j].executor_called

\* the terminal statuses an ExecutionResult can carry
TerminalStatuses == {"SUCCESS", "SKIPPED", "FAILED"}

\* the audit log holds the "execute" entry of the result
ExecuteEntryWritten(result) ==
    \E k \in 1..Len(audit_log) :
        audit_log[k].stage = "execute" /\ audit_log[k].payload = result

\* C28 as claimed, for StewardshipGate.execute: every execute call returns a
\* result with a terminal status and writes its "execute" audit entry, and
\* when the injected executor failed that status is a failure status.
C28_ExecuteAlwaysReturns ==
    \A i \in 1..Len(executions) :
        /\ executions[i].result # None
        /\ executions[i].result.status \in TerminalStatuses
        /\ ExecuteEntryWritten(executions[i].result)

\* the same for the execute calls whose executor did not raise
ExecuteReturnsUnlessExecutorRaises ==
    \A i \in 1..Len(executions) :
        executions[i].result # None =>
            /\ executions[i].result.status \in TerminalStatuses
            /\ ExecuteEntryWritten(executions[i].result)

(***************************************************************************)
(* Claims about the decision's identity and the pair that execute is given *)
(***************************************************************************)
\* the record carries a decision_id that begins with "dc-"
HasDecisionId(record) ==
    /\ "decision_id" \in DOMAIN record
    /\ Len(record.decision_id) >= 1
    /\ record.decision_id[1] = "dc-"

\* the audit entries of the stage written for the decision's proposal
EntriesFor(decision, stage) ==
    {k \in 1..Len(audit_log) :
        /\ audit_log[k].stage = stage
        /\ audit_log[k].proposal_id = decision.proposal_id}

\* C33 as claimed: every Decision that decide returned carries a decision_id
\* beginning "dc-", and the decision and execute audit entries written for it
\* carry that same decision_id in their payload.
C33_DecisionIdEverywhere ==
    \A i \in 1..Len(decisions) :
        LET decision == decisions[i].decision
        IN  /\ HasDecisionId(decision)
            /\ \A k \in EntriesFor(decision, "decision") \cup EntriesFor(decision, "execute") :
                  /\ HasDecisionId(audit_log[k].payload)
                  /\ audit_log[k].payload.decision_id = decision.decision_id

\* what the source does write: the payload of each decision entry is the
\* Decision that decide returned, field by field
DecisionEntryIsTheDecision ==
    \A i \in 1..Len(decisions) :
        \E k \in EntriesFor(decisions[i].decision, "decision") :
            audit_log[k].payload = decisions[i].decision

\* C36 as claimed: execute calls the executor only under a decision that
\* decide issued for the same proposal: when decision.proposal_id differs from
\* proposal.proposal_id, the executor is not called.
C36_ExecutorOnlyUnderOwnDecision ==
    \A i \in 1..Len(executions) :
        executions[i].decision.proposal_id # executions[i].proposal.proposal_id =>
            ~executions[i].executor_called

\* what the source does test: the executor runs only under an approved
\* decision, whichever proposal it was issued for
ExecutorOnlyUnderApprovedDecision ==
    \A i \in 1..Len(executions) :
        executions[i].executor_called => executions[i].decision.approved

(***************************************************************************)
(* Claims about what execute leaves of the rate limiter's history          *)
(***************************************************************************)
\* the step is one execute call
ExecuteCalled == Len(executions') = Len(executions) + 1

\* the actor's history after the step is what is left of the one before:
\* old hits may have been purged, none was added
NoHitRecorded(actor) ==
    \E n \in 0..Len(_hits[actor]) :
        _hits'[actor] = SubSeq(_hits[actor], n + 1, Len(_hits[actor]))

\* the call is one the claim has end before admission: under a decision that
\* is not approved or has outlived the TTL, or for a toggle_entity proposal,
\* which carries no expected_outcome
EndsBeforeAdmission(call) ==
    \/ ~call.decision.approved
    \/ Expired(call)
    \/ call.proposal.action = "toggle_entity"

\* C38 as claimed: an execute call that ends before admission (decision not
\* approved, decision expired, proposal rejected for its missing
\* expected_outcome) leaves every actor's rate-limiter history unchanged, and
\* a hit is recorded only by a call that goes on to call the executor.
C38_NoQuotaWithoutExecution ==
    [][ExecuteCalled =>
          LET call == executions'[Len(executions')]
          IN  /\ EndsBeforeAdmission(call) => _hits' = _hits
              /\ ~call.executor_called => \A actor \in Actors : NoHitRecorded(actor)]_vars

\* the same for the one early exit the source has, the decision that is not
\* approved
NoQuotaForUnapprovedDecision ==
    [][ExecuteCalled =>
          LET call == executions'[Len(executions')]
          IN  /\ ~call.decision.approved => _hits' = _hits
              /\ ~call.executor_called => \A actor \in Actors : NoHitRecorded(actor)]_vars

(***************************************************************************)
(* Claims about the entities the pipeline contacts                         *)
(***************************************************************************)
\* C35 as claimed: every entity id a run passes to ha_get_state (for the
\* before-state read and for each verification poll) or to ha_call_service is
\* in the entity allowlist, under every policy, enforce_target_verify_equality
\* = false included.
C35_OnlyAllowlistedContacted ==
    \A i \in 1..Len(ha_requests) : ha_requests[i].entity_id \in SHAMMASH_ALLOWLIST

\* the same for policies that enforce target = verify
OnlyAllowlistedContactedWhenEnforced ==
    POLICY_ENFORCE_TARGET_VERIFY =>
        \A i \in 1..Len(ha_requests) : ha_requests[i].entity_id \in SHAMMASH_ALLOWLIST

\* the target of the action, read before and called, is allowlisted under
\* every policy
TargetContactedIsAllowlisted ==
    \A i \in 1..Len(ha_requests) :
        ha_requests[i].entity_id = runs[ha_requests[i].run].proposal.action.target.entity_id
            => ha_requests[i].entity_id \in SHAMMASH_ALLOWLIST

(***************************************************************************)
(* Claims about what precedes the service call                             *)
(***************************************************************************)
\* the positions in the audit file of the run's events of the type
EventsOfRun(r, event_type) ==
    {k \in 1..Len(audit_jsonl) :
        /\ audit_jsonl[k].event_type = event_type
        /\ audit_jsonl[k].correlation.request_id = runs[r].proposal.request_id}

\* C37: a run has called ha_call_service only if, before that, Law allowed
\* the proposal, the before-state read succeeded and the execution_attempt
\* event was appended, in that order; when that append fails the call is not
\* made.
C37_CallOnlyAfterAttemptLogged ==
    \A r \in 1..Len(runs) :
        ServiceCalls(r) # {} =>
            /\ runs[r].law # None /\ runs[r].law.allowed
            /\ runs[r].before_read # None /\ runs[r].before_read.ok
            /\ \E a \in EventsOfRun(r, "law_decision"), b \in EventsOfRun(r, "execution_attempt") :
                  /\ audit_jsonl[a].payload.allowed
                  /\ a < b

\* the service call went out, after the attempt was logged
C37_Witness ==
    \E r \in 1..Len(runs) :
        /\ Cardinality(ServiceCalls(r)) = 1
        /\ runs[r].pc = "await_call_service"
        /\ EventsOfRun(r, "execution_attempt") # {}

\* an append raised after the before-state read was sent: the run ended
\* there with no execution_attempt event, and no service call went out
AppendFailedBeforeCall ==
    \E r \in 1..Len(runs) :
        /\ runs[r].pc = "raised"
        /\ StateReads(r) # {}
        /\ EventsOfRun(r, "execution_attempt") = {}
        /\ ServiceCalls(r) = {}

(***************************************************************************)
(* SpecCompare: the comparison of verify_outcome, applied to pairs of      *)
(* scalar values of every type that JSON carries.                          *)
(***************************************************************************)
ExpectedValues ==
    {PyBool(TRUE), PyBool(FALSE), PyInt(0), PyInt(1), PyFloat(10), PyFloat(15), PyNone}
        \cup {PyStr(text) : text \in {<<"o", "n">>, <<"T", "r", "u", "e">>,
                                      <<"t", "r", "u", "e">>, <<"1">>,
                                      <<"1", ".", "0">>, <<"N", "o", "n", "e">>, <<>>}}

ActualValues ==
    {PyBool(TRUE), PyBool(FALSE), PyInt(0), PyInt(1), PyFloat(10), PyFloat(15), PyNone}
        \cup {PyStr(text) : text \in
                {<<"o", "n">>, <<"O", "N">>, <<"o", "f", "f">>,
                 <<"t", "r", "u", "e">>, <<"T", "r", "u", "e">>, <<"T", "R", "U", "E">>,
                 <<"f", "a", "l", "s", "e">>, <<"F", "a", "l", "s", "e">>,
                 <<"0">>, <<"1">>, <<"0", "1">>, <<" ", "1">>, <<"1", "\n">>, <<"1", ".">>,
                 <<"1", ".", "0">>, <<"1", ".", "5">>, <<"1", ".", "5", "0">>,
                 <<"+", "1">>, <<"1", " ", "0">>, <<"1", ".", ".", "0">>, <<".">>,
                 <<"N", "o", "n", "e">>, <<"n", "o", "n", "e">>, <<>>}}

InitCompare ==
    /\ HA_TOKEN = TokenTk
    /\ ALLOWED_ACTION_TYPES = ActionTypes
    /\ SHAMMASH_ALLOWLIST = {IdLamp}
    /\ POLICY_MAX_BLAST_RADIUS = "room"
    /\ POLICY_MAX_TIMEOUT = 1
    /\ POLICY_ENFORCE_TARGET_VERIFY = TRUE
    /\ LawIdle
    /\ clock = 1
    /\ RLIdle
    /\ GateIdle
    /\ AppIdle

\* one pass through the comparison of verify_outcome
CompareValues(expected_val, actual) ==
    /\ cmp_expected' = expected_val
    /\ cmp_actual' = actual
    /\ cmp_passed' = Compare(expected_val, actual)
    /\ UNCHANGED <<policyVars, lawVars, clock, rlVars, rl_calls, gateVars,
                   runs, audit_jsonl, audit_file, ha_requests, loop_time, sanVars>>

NextCompare ==
    \E expected_val \in ExpectedValues : \E actual \in ActualValues :
        CompareValues(expected_val, actual)

SpecCompare == InitCompare /\ [][NextCompare]_vars

\* actual can be read as a number
ParsesAsNumber(actual) == float(actual) \notin {ValueError, TypeError}

\* the rule for each kind of expected value
TaggedMatch(expected_val, actual) ==
    CASE expected_val.type = "bool" ->
            \/ py_eq(actual, expected_val)
            \/ lower(str(actual)) = lower(str(expected_val))
      [] expected_val.type \in {"int", "float"} ->
            /\ ParsesAsNumber(actual)
            /\ SameNumber(float(actual), float(expected_val))
      [] expected_val.type \in {"str", "NoneType"} ->
            str(actual) = str(expected_val)

\* C20: the comparison of verify_outcome follows the rule of the expected
\* value's kind: a bool matches an equal value or one whose string form is
\* the same but for case; a number matches a value that reads as a number of
\* the same float value, and nothing that does not read as one; a string or
\* null matches a value of the same string form.
C20_ComparisonRules ==
    cmp_expected # None => (cmp_passed <=> TaggedMatch(cmp_expected, cmp_actual))

\* expected true against the state "TRUE": a match by string form, case aside
C20_Witness ==
    /\ cmp_expected = PyBool(TRUE)
    /\ cmp_actual = PyStr(<<"T", "R", "U", "E">>)
    /\ cmp_passed

(***************************************************************************)
(* SpecConcurrent: several POST /execute/proposal requests in flight on    *)
(* one event loop, their coroutines interleaving at every await.           *)
(***************************************************************************)
MaxWriters == 2

\* one request the Law allows and one it denies
ConcurrentProposals ==
    {ExecutionProposal(1, HAAction("turn_on", IdLamp, IdLamp, StateOn, "room", 1),
                       <<"j">>, TokenC1, TokenS2),
     ExecutionProposal(4, HAAction("turn_off", IdSwitch, IdSwitch, StateOff, "room", 1),
                       <<"j">>, NoText, TokenS2)}

\* what Home Assistant answers: a state, or one error
ConcurrentGetResponses(entity_id) ==
    {Returned(HAState(entity_id, StateOn)), Raised(<<"G", "E", "T">>)}

ConcurrentPostResponses == {Returned(200), Raised(<<"G", "E", "T">>)}

InitConcurrent ==
    /\ HA_TOKEN = TokenTk
    /\ ALLOWED_ACTION_TYPES = ActionTypes
    /\ SHAMMASH_ALLOWLIST = {IdLamp}
    /\ POLICY_MAX_BLAST_RADIUS = "room"
    /\ POLICY_MAX_TIMEOUT = 1
    /\ POLICY_ENFORCE_TARGET_VERIFY = TRUE
    /\ LawIdle
    /\ clock = 1
    /\ RLIdle
    /\ GateIdle
    /\ AppIdle

\* POST /execute/proposal arrives while earlier requests are in flight
StartWriter(proposal) ==
    /\ Len(runs) < MaxWriters
    /\ Apply(Len(runs) + 1, execute_proposal_begin(Len(runs) + 1, proposal))

NextConcurrent ==
    \/ \E proposal \in ConcurrentProposals : StartWriter(proposal)
    \/ \E r \in 1..Len(runs) :
          \E response \in ConcurrentGetResponses(runs[r].proposal.action.target.entity_id) :
             BeforeStateReturns(r, response)
    \/ \E r \in 1..Len(runs) :
          \E response \in ConcurrentPostResponses : CallServiceReturns(r, response)
    \/ \E r \in 1..Len(runs) :
          \E response \in ConcurrentGetResponses(
                              runs[r].proposal.action.expected_outcome.verify.entity_id) :
             PollReturns(r, response)
    \/ \E r \in 1..Len(runs) : Wake(r)
    \/ AppTick

SpecConcurrent == InitConcurrent /\ [][NextConcurrent]_vars

\* the lines of a file, as reading it line by line yields them: each ends
\* with its line feed, except a last one that the file does not terminate
RECURSIVE ReadLines(_, _)
ReadLines(file, line) ==
    IF file = <<>> THEN (IF line = <<>> THEN <<>> ELSE <<line>>)
    ELSE IF Head(file) = LineFeed
         THEN <<Append(line, LineFeed)>> \o ReadLines(Tail(file), <<>>)
         ELSE ReadLines(Tail(file), Append(line, Head(file)))

\* json.loads of a line: the event of a line that is one whole JSON object
\* and its line feed, ValueError for anything else
json_loads(line) ==
    IF /\ Len(line) = 4
       /\ line[1] = Chr("{")
       /\ DOMAIN line[2] = {"members"}
       /\ line[3] = Chr("}")
       /\ line[4] = LineFeed
    THEN line[2].members
    ELSE ValueError

\* the events read back from the audit file, line by line
EventsRead ==
    LET lines == ReadLines(audit_file, <<>>)
    IN  [k \in 1..Len(lines) |-> json_loads(lines[k])]

MaxThreads == 2

InitRLThreads ==
    /\ PolicyDefault
    /\ LawIdle
    /\ clock = 1
    /\ limit \in 1..MaxLimit
    /\ window_seconds \in 0..MaxWindow
    /\ _hits = [a \in Actors |-> <<>>]
    /\ accepting = <<>>
    /\ rl_calls = <<>>
    /\ GateIdle
    /\ AppIdle

\* a thread enters accept: now = now or time.time(); window_start; setdefault
AcceptEnter(actor, now) ==
    /\ Len(accepting) < MaxThreads
    /\ accepting' = Append(accepting,
          [pc |-> "comprehension", actor |-> actor, now |-> now, t |-> NowOrTime(now),
           before |-> _hits[actor], kept |-> <<>>, decision |-> None])
    /\ UNCHANGED <<policyVars, appVars, lawVars, clock, limit, window_seconds, _hits,
                   rl_calls, gateVars>>

\* [ts for ts in hits if ts >= window_start]: the list is read into a new one
AcceptComprehension(k) ==
    /\ accepting[k].pc = "comprehension"
    /\ accepting' = [accepting EXCEPT
          ![k].pc = "assign",
          ![k].kept = PurgeHits(_hits[accepting[k].actor],
                                accepting[k].t - window_seconds)]
    /\ UNCHANGED <<policyVars, appVars, lawVars, clock, limit, window_seconds, _hits,
                   rl_calls, gateVars>>

\* hits[:] = ...: the new list replaces the content of the shared one
AcceptAssign(k) ==
    /\ accepting[k].pc = "assign"
    /\ _hits' = [_hits EXCEPT ![accepting[k].actor] = accepting[k].kept]
    /\ accepting' = [accepting EXCEPT ![k].pc = "test"]
    /\ UNCHANGED <<policyVars, appVars, lawVars, clock, limit, window_seconds,
                   rl_calls, gateVars>>

\* if len(hits) >= self.limit: return PolicyDecision(False, ...)
AcceptTest(k) ==
    /\ accepting[k].pc = "test"
    /\ IF AtLimit(_hits[accepting[k].actor])
       THEN LET decision == PolicyDecision(FALSE, "rate limit exceeded")
            IN  /\ accepting' = [accepting EXCEPT ![k].pc = "done",
                                                  ![k].decision = decision]
                /\ rl_calls' = Append(rl_calls,
                      [actor |-> accepting[k].actor, now |-> accepting[k].now,
                       decision |-> decision, before |-> accepting[k].before,
                       after |-> _hits[accepting[k].actor]])
       ELSE /\ accepting' = [accepting EXCEPT ![k].pc = "append"]
            /\ rl_calls' = rl_calls
    /\ UNCHANGED <<policyVars, appVars, lawVars, clock, limit, window_seconds, _hits,
                   gateVars>>

\* hits.append(now); return PolicyDecision(True, ...)
AcceptAppend(k) ==
    /\ accepting[k].pc = "append"
    /\ LET decision == PolicyDecision(TRUE, "within rate limit")
           after == Append(_hits[accepting[k].actor], accepting[k].t)
       IN  /\ _hits' = [_hits EXCEPT ![accepting[k].actor] = after]
           /\ accepting' = [accepting EXCEPT ![k].pc = "done", ![k].decision = decision]
           /\ rl_calls' = Append(rl_calls,
                 [actor |-> accepting[k].actor, now |-> accepting[k].now,
                  decision |-> decision, before |-> accepting[k].before,
                  after |-> after])
    /\ UNCHANGED <<policyVars, appVars, lawVars, clock, limit, window_seconds, gateVars>>

\* every call is given a `now` that is not zero, so that none falls back on
\* the wall clock
NextRLThreads ==
    \/ Tick
    \/ \E actor \in Actors, now \in 1..MaxNow : AcceptEnter(actor, now)
    \/ \E k \in 1..Len(accepting) : AcceptComprehension(k)
    \/ \E k \in 1..Len(accepting) : AcceptAssign(k)
    \/ \E k \in 1..Len(accepting) : AcceptTest(k)
    \/ \E k \in 1..Len(accepting) : AcceptAppend(k)

SpecRLThreads == InitRLThreads /\ [][NextRLThreads]_vars

\* the orders in which n calls can be made one after the other
Orders(n) == {f \in [1..n -> 1..n] : \A i, j \in 1..n : f[i] = f[j] => i = j}

\* the calls made in the given order, one after the other, from the history
\* given: the histories afterwards and the decision of each call
RECURSIVE Sequential(_, _, _, _)
Sequential(order, i, hits, made) ==
    IF i > Len(accepting) THEN [hits |-> hits, decisions |-> made]
    ELSE LET call == accepting[order[i]]
             r == RateLimiter_accept(hits[call.actor], call.now)
         IN  Sequential(order, i + 1, [hits EXCEPT ![call.actor] = r.hits],
                        [made EXCEPT ![order[i]] = r.decision])

\* every thread has returned from accept
AllReturned == \A k \in 1..Len(accepting) : accepting[k].pc = "done"

\* C31 as claimed: whatever the interleaving of concurrent accept calls, the
\* decisions they return and the hit history they leave are those of the same
\* calls made one after the other in some order, so that no more than `limit`
\* calls are admitted within a window and no recorded hit is lost.
C31_AcceptSerializable ==
    AllReturned =>
        \E order \in Orders(Len(accepting)) :
            LET serial == Sequential(order, 1, [a \in Actors |-> <<>>],
                                     [k \in 1..Len(accepting) |-> None])
            IN  /\ serial.hits = _hits
                /\ \A k \in 1..Len(accepting) :
                      serial.decisions[k] = accepting[k].decision

(***************************************************************************)
(* SpecSanitize: _sanitize_error applied to every error message of up to   *)
(* MaxMsgLen pieces, under each configured token.                          *)
(***************************************************************************)
MaxMsgLen == 5

\* the pieces error messages are made of: the words the patterns look for,
\* a blank, the characters of the token, and a character of another secret
MsgPieces == {"Bearer", "Authorization", ":", " ", "t", "k", "s"}

Messages == UNION {[1..n -> MsgPieces] : n \in 0..MaxMsgLen}

InitSanitize ==
    /\ HA_TOKEN \in {TokenTk, <<"t">>}
    /\ ALLOWED_ACTION_TYPES = ActionTypes
    /\ SHAMMASH_ALLOWLIST = {IdLamp}
    /\ POLICY_MAX_BLAST_RADIUS = "room"
    /\ POLICY_MAX_TIMEOUT = 1
    /\ POLICY_ENFORCE_TARGET_VERIFY = TRUE
    /\ LawIdle
    /\ clock = 1
    /\ RLIdle
    /\ GateIdle
    /\ PipelineIdle
    /\ san_exc \in Messages
    /\ san_msg = None

\* _sanitize_error(exc) returns
SanitizeError(exc) ==
    /\ san_msg = None
    /\ san_msg' = [returned |-> _sanitize_error(exc)]
    /\ UNCHANGED <<policyVars, lawVars, clock, rlVars, rl_calls, gateVars,
                   runs, audit_jsonl, audit_file, ha_requests, loop_time, cmpVars, san_exc>>

NextSanitize == SanitizeError(san_exc)

SpecSanitize == InitSanitize /\ [][NextSanitize]_vars

\* the non-space run that follows "Bearer" and blanks at position i of s,
\* empty when there is none
BearerRun(s, i) ==
    LET w == RunIn(s, i + 1, Whitespace)
        n == RunNotIn(s, i + 1 + w, Whitespace)
    IN  IF s[i] = "Bearer" /\ w >= 1 /\ n >= 1
        THEN SubSeq(s, i + 1 + w, i + w + n)
        ELSE <<>>

\* position j of s comes directly after "Bearer" and one or more blanks
FollowsBearer(s, j) ==
    \E i \in 1..(j - 2) :
        s[i] = "Bearer" /\ \A k \in (i + 1)..(j - 1) : s[k] \in Whitespace

\* the pieces of the texts that _sanitize_error puts in
ReplacementPieces == {"Bearer", "Authorization", ":", "[", "REDACTED", "]"}

\* a credential of the message: a run that follows "Bearer", holds no piece
\* of the replacement texts, and stands nowhere else in the message
BearerCredentials(s) ==
    {run \in {BearerRun(s, i) : i \in 1..Len(s)} :
        /\ run # <<>>
        /\ \A k \in 1..Len(run) : run[k] \notin ReplacementPieces
        /\ \A j \in 1..Len(s) : OccursAt(s, run, j) => FollowsBearer(s, j)}

\* C34 as claimed: the string _sanitize_error returns does not contain the
\* configured token, and no run that followed "Bearer" in the message can be
\* read from it.
C34_ErrorsCarryNoCredential ==
    san_msg # None =>
        /\ ~Contains(san_msg.returned, HA_TOKEN)
        /\ \A run \in BearerCredentials(san_exc) : ~Contains(san_msg.returned, run)

\* the token half of it: the configured token is never in the string returned
TokenNeverInSanitizedError ==
    san_msg # None => ~Contains(san_msg.returned, HA_TOKEN)

\* the Bearer half for messages in which "Bearer" stands once
SingleBearerRunHidden ==
    (san_msg # None /\ Cardinality({i \in 1..Len(san_exc) : san_exc[i] = "Bearer"}) <= 1) =>
        \A run \in BearerCredentials(san_exc) : ~Contains(san_msg.returned, run)

(***************************************************************************)
(* SpecLive: the runs of Spec on an event loop that keeps running: every   *)
(* device call returns or fails in the end, every sleep ends, and the      *)
(* loop's clock advances.                                                  *)
(***************************************************************************)
\* the next step of run r, whichever await it is suspended at
RunStep(r) ==
    /\ r <= Len(runs)
    /\ \/ \E response \in GetResponses(runs[r].proposal.action.target.entity_id) :
             BeforeStateReturns(r, response)
       \/ \E response \in PostResponses : CallServiceReturns(r, response)
       \/ \E response \in GetResponses(runs[r].proposal.action.expected_outcome.verify.entity_id) :
             PollReturns(r, response)
       \/ Wake(r)

SpecLive ==
    /\ Init
    /\ [][Next]_vars
    /\ WF_vars(AppTick)
    /\ \A r \in 1..MaxRuns : WF_vars(RunStep(r))

\* execute_proposal has returned its receipt, or an audit append raised out of it
Ended(r) ==
    /\ r <= Len(runs)
    /\ \/ runs[r].pc = "done" /\ runs[r].receipt # None
       \/ runs[r].pc = "raised"

\* every poll of every run started before the run's deadline
PollsBeforeDeadline ==
    \A r \in 1..Len(runs) :
        \A k \in 1..Len(runs[r].polls) : runs[r].polls[k].at < runs[r].deadline

\* C39: every run of execute_proposal ends: it returns a receipt (or, when an
\* audit append fails, raises), whatever the device answers, and no poll of
\* verify_outcome starts at or after the deadline, so the polls are finitely
\* many.
C39_EveryRunTerminates ==
    /\ []PollsBeforeDeadline
    /\ \A r \in 1..MaxRuns : (Len(runs) >= r) ~> Ended(r)

\* a run whose polls never matched has ended with the timeout receipt
C39_Witness ==
    \E r \in 1..Len(runs) :
        /\ runs[r].pc = "done"
        /\ runs[r].receipt.decision = "failed"
        /\ Len(runs[r].polls) >= 1
        /\ \A k \in 1..Len(runs[r].polls) :
              /\ runs[r].polls[k].answer # None
              /\ ~runs[r].polls[k].answer.ok
        /\ runs[r].service_response # None
        /\ runs[r].service_response.ok

====
